---------------------------- MODULE Spec2Model ----------------------------
(***************************************************************************)
(* A model of the tokenizers of deeplearning/clgen/corpuses/tokenizers.py, *)
(* and of the symmetrical token depth criterion of                         *)
(* deeplearning/clgen/samplers.py in the sampling loop of models/tf_bert.py.*)
(*                                                                         *)
(* A character is a one-character string, a text is a sequence of          *)
(* characters and an atom is a non-empty text.  A Python dict is a         *)
(* function whose DOMAIN is its key set; an ordered dict (metaTokens) is a *)
(* sequence of <<role, atom>> pairs in insertion order.  Positions in a    *)
(* text are 0-based as in the source: text[i] of the source is text[i+1]   *)
(* here.                                                                   *)
(***************************************************************************)
EXTENDS Integers, Sequences, FiniteSets, TLC

VARIABLES
  pc,                 \* "new": no object yet; "idle": between calls;
                      \* "returned": a call has just returned or raised;
                      \* "failed": a constructor raised
  kind,               \* the class of the object: "char", "word", "ast"
  vocab,              \* self.vocab
  metaTokens,         \* self.metaTokens
  vocab_size,         \* self.vocab_size
  decoder,            \* self.decoder
  metaTokenValues,    \* self.metaTokenValues
  determine_chars,    \* WordTokenizer.determine_chars
  lookup,             \* WordTokenizer.lookup
  decoder_with_delim, \* ASTokenizer.decoder_with_delim
  op,                 \* the operation called last
  arg,                \* its arguments
  ret,                \* its return value
  err,                \* the exception it raised, "none" if it returned
  corpus,             \* the text a FromText constructor was given
  phase1,             \* WordTokenizer.FromText: c.AtomizeString(text)
  file,               \* the file at path: what pickle.dump wrote to it
  saved,              \* the object ToFile was called on, as it then was
  pool,               \* ASTokenizer.FromText: the state of the worker pool
  status,             \* of each chunk: where its extraction has got to
  queue,              \* the chunks in the order their results were ready
  source_tokens,      \* ASTokenizer.FromText: source_tokens
  criterion,          \* "new": no criterion yet; "built"; "failed": its
                      \* constructor raised
  left_token,         \* SymmetricalTokenDepthCriterion.left_token
  right_token,        \* SymmetricalTokenDepthCriterion.right_token
  sample_in_progress, \* the sample of the sampling loop
  done,               \* the sampling loop: done[0]
  token_depth         \* what GetTokenDepth returned for the sample, if called

tokenizervars == <<pc, kind, vocab, metaTokens, vocab_size, decoder, metaTokenValues,
          determine_chars, lookup, decoder_with_delim, op, arg, ret, err,
          corpus, phase1, file, saved, pool, status, queue, source_tokens>>

\* The termination criterion and the sampling loop.
samplervars == <<criterion, left_token, right_token, sample_in_progress, done,
                 token_depth>>

vars == <<tokenizervars, samplervars>>

objvars == <<kind, vocab, metaTokens, vocab_size, decoder, metaTokenValues,
             determine_chars, lookup, decoder_with_delim>>

\* What lies outside the object and its call.
envvars == <<file, saved>>

\* The discovery pass of ASTokenizer.FromText.
poolvars == <<pool, status, queue, source_tokens>>

---------------------------------------------------------------------------
(* Bounds of the model. *)

\* Longest text given to a character tokenizer, in pieces of CharPieces.
MaxCharText == 3
\* Longest text given to a word tokenizer, in pieces of WordPieces.
MaxWordText == 4
\* Longest one-dimensional index sequence given to a decode operation.
MaxEncLen == 2
\* Most sub-sequences of a nested index sequence.
MaxBatch == 2
\* Longest text given to a growable word tokenizer, in characters.
MaxGrowText == 2
\* Longest text with a literal meta token given to a word tokenizer, in
\* pieces (a character or the meta token).
MaxMetaText == 2
\* Longest corpus given to AsciiCharacterTokenizer.FromText, in pieces.
MaxCorpus == 2
\* Longest list of atoms opencl.AtomizeSource returns.
MaxSplit == 2
\* Longest corpus given to WordTokenizer.FromText, in characters.
MaxWordCorpus == 3
\* Most chunks of the corpus given to ASTokenizer.FromText.
MaxChunks == 2
\* Worker processes of the pool (multiprocessing.Pool(): the CPUs).
PoolSize == 2
\* Longest index sequence given to SrcLocationToIndex.
MaxLineEnc == 3

---------------------------------------------------------------------------
(* Texts. *)

Min(a, b) == IF a <= b THEN a ELSE b
Max(a, b) == IF a >= b THEN a ELSE b

\* F(v), with v evaluated once, before F is applied to it.
Bind(v, F(_)) == CHOOSE r \in {F(x) : x \in {v}} : TRUE

\* x.startswith(p)
StartsWith(x, p) == Len(p) <= Len(x) /\ SubSeq(x, 1, Len(p)) = p

\* text[i:j] for 0 <= i, 0 <= j (the end is clipped to len(text))
Slice(text, i, j) == SubSeq(text, i + 1, Min(j, Len(text)))

\* "".join(parts)
RECURSIVE Join(_)
Join(parts) ==
  IF parts = <<>> THEN <<>> ELSE Head(parts) \o Join(Tail(parts))

\* The set of elements of a sequence.
Range(s) == {s[k] : k \in DOMAIN s}

\* The code point of a character: what Python's string comparison compares.
CodePoints ==
  "\n" :> 10 @@ " " :> 32 @@ "+" :> 43 @@ "-" :> 45 @@ "A" :> 65 @@ "D" :> 68 @@ "E" :> 69
    @@ "H" :> 72 @@ "K" :> 75 @@ "L" :> 76 @@ "M" :> 77 @@ "N" :> 78
    @@ "O" :> 79 @@ "P" :> 80 @@ "R" :> 82 @@ "S" :> 83 @@ "T" :> 84
    @@ "[" :> 91 @@ "\\" :> 92 @@ "]" :> 93 @@ "a" :> 97 @@ "b" :> 98
    @@ "c" :> 99 @@ "d" :> 100 @@ "e" :> 101 @@ "h" :> 104 @@ "r" :> 114
    @@ "s" :> 115 @@ "x" :> 120
Ord(c) == CodePoints[c]

\* s < t for Python strings.
RECURSIVE StrLess(_, _)
StrLess(s, t) ==
  IF t = <<>> THEN FALSE
  ELSE IF s = <<>> THEN TRUE
  ELSE IF Head(s) = Head(t) THEN StrLess(Tail(s), Tail(t))
  ELSE Ord(Head(s)) < Ord(Head(t))

\* sorted(list(S)) for a set S of strings.
Sorted(S) ==
  [k \in 1..Cardinality(S) |->
     CHOOSE x \in S : Cardinality({y \in S : StrLess(y, x)}) = k - 1]

---------------------------------------------------------------------------
(* The meta tokens of the FromText constructors. *)

START   == <<"[", "S", "T", "A", "R", "T", "]">>
END     == <<"[", "E", "N", "D", "]">>
PAD     == <<"[", "P", "A", "D", "]">>
MASK    == <<"[", "M", "A", "S", "K", "]">>
HOLE    == <<"[", "H", "O", "L", "E", "]">>
ENDHOLE == <<"[", "E", "N", "D", "H", "O", "L", "E", "]">>

\* The dict literal of the FromText constructors, in insertion order.
MaskMetaTokens ==
  << <<"startToken", START>>, <<"endToken", END>>, <<"padToken", PAD>>,
     <<"maskToken", MASK>>, <<"holeToken", HOLE>>,
     <<"endholeToken", ENDHOLE>> >>

\* metaTokens = {...} if mask_tokens else {}
MetaTokensFor(mask_tokens) == IF mask_tokens THEN MaskMetaTokens ELSE <<>>

\* list(metaTokens.values())
MetaValues(mt) == [k \in DOMAIN mt |-> mt[k][2]]

\* dict(zip(atoms, range(len(atoms)))): a later duplicate key overwrites the
\* index of an earlier one.
DictZip(atoms) ==
  [a \in Range(atoms) |->
     Cardinality({k \in DOMAIN atoms :
                    \E m \in k..Len(atoms) : atoms[m] = a}) - 1]

---------------------------------------------------------------------------
(* TokenizerBase. *)

\* The empty dict.
EmptyDict == <<>>

\* {val: key for key, val in vocab.items()}: of two keys with one value the
\* one inserted later wins; the model takes either.
Inverse(v) ==
  [i \in {v[a] : a \in DOMAIN v} |-> CHOOSE a \in DOMAIN v : v[a] = i]

\* _UpdateVocabulary without its check that the indices are unique.
UpdateVocabularyNoIndexCheck(isDict, v, mt) ==
  IF ~isDict THEN [err |-> "TypeError"]
  ELSE IF \E k \in DOMAIN mt : mt[k][2] \notin DOMAIN v
    THEN [err |-> "KeyError", vocab_size |-> Cardinality(DOMAIN v),
          decoder |-> Inverse(v)]
  ELSE [err |-> "none", vocab_size |-> Cardinality(DOMAIN v),
        decoder |-> Inverse(v)]

\* TokenizerBase._UpdateVocabulary: the exception it raises ("none" if it
\* returns), vocab_size and decoder.
UpdateVocabulary(isDict, v, mt) ==
  IF ~isDict THEN [err |-> "TypeError"]
  ELSE IF Cardinality({v[a] : a \in DOMAIN v}) # Cardinality(DOMAIN v)
    THEN [err |-> "ValueError"]
  ELSE IF \E k \in DOMAIN mt : mt[k][2] \notin DOMAIN v
    THEN [err |-> "KeyError", vocab_size |-> Cardinality(DOMAIN v),
          decoder |-> Inverse(v)]
  ELSE [err |-> "none", vocab_size |-> Cardinality(DOMAIN v),
        decoder |-> Inverse(v)]

\* The metaTokenValues of TokenizerBase.__init__: the attributes of the object
\* named by the roles of metaTokens, which _UpdateVocabulary set to the
\* indices of the meta atoms.
MetaTokenValuesOf(v, mt) == {v[mt[k][2]] : k \in DOMAIN mt}

\* The decode below with self.decoder.get(x, ''): an index without an entry
\* contributes nothing.
BaseDecode1Lenient(dec, encoded, ignore_token) ==
  [err |-> "none",
   val |-> Join([k \in DOMAIN encoded |->
                   IF encoded[k] # ignore_token /\ encoded[k] \in DOMAIN dec
                   THEN dec[encoded[k]] ELSE <<>>])]

\* TokenizerBase.tokensToString on a one-dimensional sequence.
BaseDecode1(dec, encoded, ignore_token) ==
  IF \E k \in DOMAIN encoded :
       encoded[k] # ignore_token /\ encoded[k] \notin DOMAIN dec
  THEN [err |-> "KeyError"]
  ELSE [err |-> "none",
        val |-> Join([k \in DOMAIN encoded |->
                        IF encoded[k] # ignore_token THEN dec[encoded[k]]
                        ELSE <<>>])]


\* The default of the ignore_token parameter.  An index of an encoded
\* sequence is a non-negative integer, so no index equals it.
None == -1

\* The fields of an object that is not a WordTokenizer or an ASTokenizer.
NoLookup == EmptyDict
NoDelim == EmptyDict

\* TokenizerBase.__init__ for class k: the exception raised, and the object.
BaseInit(k, isDict, v, mt) ==
  LET u == UpdateVocabulary(isDict, v, mt) IN
  IF u.err # "none" THEN [err |-> u.err]
  ELSE [err |-> "none",
        obj |-> [kind |-> k, vocab |-> v, metaTokens |-> mt,
                 vocab_size |-> u.vocab_size, decoder |-> u.decoder,
                 metaTokenValues |-> MetaTokenValuesOf(v, mt),
                 determine_chars |-> FALSE, lookup |-> NoLookup,
                 decoder_with_delim |-> NoDelim]]

\* AsciiCharacterTokenizer(vocab, metaTokens)
CharInit(isDict, v, mt) == BaseInit("char", isDict, v, mt)

\* A lookup table that also holds the atoms of one character.
LookupOfAllAtoms(v) ==
  [c \in {a[1] : a \in DOMAIN v \ {<<>>}} |->
     {a \in DOMAIN v \ {<<>>} : a[1] = c}]

\* The lookup table of WordTokenizer.__init__.
LookupOf(v) ==
  LET multichars == {a \in DOMAIN v : Len(a) > 1}
      first_chars == {a[1] : a \in multichars}
  IN [c \in first_chars |-> {a \in multichars : a[1] = c}]

\* WordTokenizer(vocab, metaTokens, determine_chars)
WordInit(isDict, v, mt, dc) ==
  LET b == BaseInit("word", isDict, v, mt) IN
  IF b.err # "none" THEN b
  ELSE [err |-> "none",
        obj |-> [b.obj EXCEPT !.determine_chars = dc,
                              !.lookup = LookupOf(v)]]

---------------------------------------------------------------------------
(* AsciiCharacterTokenizer. *)

\* The search below with the slice text[idx: len(meta)].
MetaAtShortSlice(mv, text, idx) ==
  LET hits == {k \in DOMAIN mv : Slice(text, idx, Len(mv[k])) = mv[k]}
  IN IF hits = {} THEN 0
     ELSE CHOOSE k \in hits : \A m \in hits : k <= m

\* The first meta token, in the order of metaTokens.values(), that the text
\* holds at idx; 0 if none does.
MetaAt(mv, text, idx) ==
  LET hits == {k \in DOMAIN mv : Slice(text, idx, idx + Len(mv[k])) = mv[k]}
  IN IF hits = {} THEN 0
     ELSE CHOOSE k \in hits : \A m \in hits : k <= m

\* The loop below with skipNext never set: a matched meta token is not
\* skipped.
RECURSIVE CharLoopNoSkip(_, _, _, _, _)
CharLoopNoSkip(self, text, idx, skipNext, encoded) ==
  IF idx >= Len(text) THEN [err |-> "none", val |-> encoded]
  ELSE
    LET char == text[idx + 1]
        mv == MetaValues(self.metaTokens)
        hit == IF char = "[" THEN MetaAt(mv, text, idx) ELSE 0
        enc1 == IF hit # 0 THEN Append(encoded, self.vocab[mv[hit]])
                ELSE encoded
    IN IF <<char>> \notin DOMAIN self.vocab
         THEN [err |-> "ValueError"]
       ELSE CharLoopNoSkip(self, text, idx + 1, 0,
                           Append(enc1, self.vocab[<<char>>]))

\* The loop of AsciiCharacterTokenizer.TokenizeString with meta tokens, from
\* position idx on.
RECURSIVE CharLoop(_, _, _, _, _)
CharLoop(self, text, idx, skipNext, encoded) ==
  IF idx >= Len(text) THEN [err |-> "none", val |-> encoded]
  ELSE IF skipNext > 0
    THEN CharLoop(self, text, idx + 1, skipNext - 1, encoded)
  ELSE
    LET char == text[idx + 1]
        mv == MetaValues(self.metaTokens)
        hit == IF char = "[" THEN MetaAt(mv, text, idx) ELSE 0
        skip == IF hit # 0 THEN Len(mv[hit]) - 1 ELSE 0
        enc1 == IF hit # 0 THEN Append(encoded, self.vocab[mv[hit]])
                ELSE encoded
    IN IF hit # 0 /\ mv[hit] \notin DOMAIN self.vocab
         THEN [err |-> "ValueError"]
       ELSE IF skip = 0
         THEN IF <<char>> \notin DOMAIN self.vocab
              THEN [err |-> "ValueError"]
              ELSE CharLoop(self, text, idx + 1, 0,
                            Append(enc1, self.vocab[<<char>>]))
       ELSE CharLoop(self, text, idx + 1, skip, enc1)

\* AsciiCharacterTokenizer.TokenizeString
CharTokenizeString(self, text) ==
  IF self.metaTokens = <<>>
  THEN IF \E k \in DOMAIN text : <<text[k]>> \notin DOMAIN self.vocab
       THEN [err |-> "ValueError"]
       ELSE [err |-> "none",
             val |-> [k \in DOMAIN text |-> self.vocab[<<text[k]>>]]]
  ELSE CharLoop(self, text, 0, 0, <<>>)

---------------------------------------------------------------------------
(* WordTokenizer. *)

\* The number of atoms less one, in the place of the largest index.
LastPosition(v) == Cardinality(DOMAIN v) - 1

\* max(self.vocab.values())
MaxIndex(v) ==
  CHOOSE m \in {v[a] : a \in DOMAIN v} : \A a \in DOMAIN v : v[a] <= m

\* _AddToVocab that adds the token whatever determine_chars is.
AddToVocabAlways(dc, v, token) ==
  IF token \notin DOMAIN v
  THEN IF DOMAIN v = {} THEN [err |-> "ValueError", vocab |-> v]
       ELSE LET max_index == MaxIndex(v)
            IN [err |-> "none",
                vocab |-> [a \in DOMAIN v \cup {token} |->
                             IF a = token THEN max_index + 1 ELSE v[a]],
                index |-> max_index + 1]
  ELSE [err |-> "none", vocab |-> v, index |-> v[token]]

\* _AddToVocab of WordTokenizer.TokenizeString: the exception raised, the
\* vocabulary afterwards and the index returned.
AddToVocab(dc, v, token) ==
  IF dc /\ token \notin DOMAIN v
  THEN IF DOMAIN v = {} THEN [err |-> "ValueError", vocab |-> v]
       ELSE LET max_index == MaxIndex(v)
            IN [err |-> "none",
                vocab |-> [a \in DOMAIN v \cup {token} |->
                             IF a = token THEN max_index + 1 ELSE v[a]],
                index |-> max_index + 1]
  ELSE IF token \notin DOMAIN v THEN [err |-> "ValueError", vocab |-> v]
  ELSE [err |-> "none", vocab |-> v, index |-> v[token]]

\* An inner loop that stops at the shortest window that equals an atom.
ShrinkToShortest(cands, text, i, j) ==
  LET hits == {k \in (i + 2) .. j : \E x \in cands : x = Slice(text, i, k)}
  IN IF hits = {} THEN Min(j, i + 1)
     ELSE CHOOSE k \in hits : \A m \in hits : k <= m

\* The inner loop "while j > i + 1" of WordTokenizer.TokenizeString: the j at
\* which text[i:j] equals an atom of the lookup entry, or i + 1 when the loop
\* runs out (j itself when the loop is not entered).
RECURSIVE Shrink(_, _, _, _)
Shrink(cands, text, i, j) ==
  IF j > i + 1
  THEN IF \E x \in cands : x = Slice(text, i, j) THEN j
       ELSE Shrink(cands, text, i, j - 1)
  ELSE j

\* The state of the loop of WordTokenizer.TokenizeString when it is entered.
WordStart(v) == [i |-> 0, j |-> 2, indices |-> <<>>, vocab |-> v,
                 err |-> "none"]

\* The single-character branch of the loop: indices.append(_AddToVocab(
\* text[i])), i += 1, j += 2, with j the value the inner loop left.
WordSingle(self, text, st, j) ==
  LET a == AddToVocab(self.determine_chars, st.vocab, <<text[st.i + 1]>>) IN
  IF a.err # "none" THEN [st EXCEPT !.err = a.err, !.vocab = a.vocab]
  ELSE [st EXCEPT !.indices = Append(st.indices, a.index),
                  !.vocab = a.vocab, !.i = st.i + 1, !.j = j + 2]

\* A test that lets the window end run one past the end of the text.
ExtendsPastEnd(cands, text, i, j) ==
  /\ j <= Len(text) + 1
  /\ \E x \in cands : StartsWith(x, Slice(text, i, j))

\* "j <= len(text) and any(x.startswith(text[i:j]) for x in
\* self.lookup[text[i]])": the window can grow.
Extends(cands, text, i, j) ==
  /\ j <= Len(text)
  /\ \E x \in cands : StartsWith(x, Slice(text, i, j))

\* One iteration of the loop "while i < len(text)" of
\* WordTokenizer.TokenizeString.
WordStep(self, text, st) ==
  LET i == st.i
      j == st.j
      ch == text[i + 1]
  IN IF ch \in DOMAIN self.lookup /\ self.lookup[ch] # {}
     THEN IF Extends(self.lookup[ch], text, i, j)
          THEN [st EXCEPT !.j = j + 1]
          ELSE LET k == Shrink(self.lookup[ch], text, i, j) IN
               IF k > i + 1
               THEN IF Slice(text, i, k) \notin DOMAIN st.vocab
                    THEN [st EXCEPT !.err = "ValueError"]
                    ELSE [st EXCEPT
                            !.indices = Append(st.indices,
                                               st.vocab[Slice(text, i, k)]),
                            !.i = k, !.j = k + 2]
               ELSE WordSingle(self, text, st, k)
     ELSE WordSingle(self, text, st, j)

\* The loop of WordTokenizer.TokenizeString, run from state st to its end.
RECURSIVE WordLoop(_, _, _)
WordLoop(self, text, st) ==
  IF st.err # "none" \/ st.i >= Len(text) THEN st
  ELSE Bind(WordStep(self, text, st), LAMBDA n : WordLoop(self, text, n))

\* WordTokenizer.TokenizeString without its call of _UpdateVocabulary.
WordTokenizeStringNoUpdate(self, text) ==
  Bind(WordLoop(self, text, WordStart(self.vocab)), LAMBDA st :
  LET grown == [self EXCEPT !.vocab = st.vocab]
  IN IF st.err # "none" THEN [err |-> st.err, obj |-> grown]
     ELSE [err |-> "none", val |-> st.indices, obj |-> grown])

\* WordTokenizer.TokenizeString: the exception raised, the indices returned
\* and the object afterwards.
WordTokenizeString(self, text) ==
  Bind(WordLoop(self, text, WordStart(self.vocab)), LAMBDA st :
  LET grown == [self EXCEPT !.vocab = st.vocab]
  IN IF st.err # "none" THEN [err |-> st.err, obj |-> grown]
     ELSE IF self.determine_chars
       THEN LET u == UpdateVocabulary(TRUE, st.vocab, self.metaTokens) IN
            IF u.err \in {"TypeError", "ValueError"}
            THEN [err |-> u.err, obj |-> grown]
            ELSE IF u.err = "KeyError"
            THEN [err |-> u.err,
                  obj |-> [grown EXCEPT !.vocab_size = u.vocab_size,
                                        !.decoder = u.decoder]]
            ELSE [err |-> "none", val |-> st.indices,
                  obj |-> [grown EXCEPT !.vocab_size = u.vocab_size,
                                        !.decoder = u.decoder]]
     ELSE [err |-> "none", val |-> st.indices, obj |-> self])

\* sorted(list(set(atoms)))
SortedSet(atoms) == Sorted(Range(atoms))

\* The orders in which the model lets Python iterate over the set S (any
\* order is possible; the model takes the sorted order, its reverse and its
\* rotation by one).
Reverse(s) == [k \in DOMAIN s |-> s[Len(s) + 1 - k]]
Rotate(s, r) == [k \in DOMAIN s |-> s[((k - 1 + r) % Len(s)) + 1]]
SetOrders(S) ==
  IF S = {} THEN {<<>>}
  ELSE LET srt == Sorted(S) IN {srt, Reverse(srt), Rotate(srt, 1)}

---------------------------------------------------------------------------
(* ASTokenizer. *)

\* s.replace(pat, new) for a non-empty pat.
RECURSIVE Replace(_, _, _)
Replace(s, pat, new) ==
  IF s = <<>> THEN <<>>
  ELSE IF StartsWith(s, pat)
    THEN new \o Replace(SubSeq(s, Len(pat) + 1, Len(s)), pat, new)
  ELSE <<Head(s)>> \o Replace(Tail(s), pat, new)

\* The suffix of the key of a character-based atom.
CharBased == <<"-", "c", "h", "a", "r", "-", "b", "a", "s", "e", "d">>

\* "{}{}".format(k.replace('-char-based', '').replace('\\', '\\\\'), v)
WithDelim(k, v) ==
  Replace(Replace(k, CharBased, <<>>), <<"\\">>, <<"\\", "\\">>) \o v

\* ASTokenizer(vocab, metaTokens, token_del)
ASTInit(isDict, v, mt, token_del) ==
  LET b == BaseInit("ast", isDict, v, mt) IN
  IF b.err # "none" THEN b
  ELSE IF \E k \in DOMAIN token_del : k \notin DOMAIN v
    THEN [err |-> "KeyError"]
  ELSE [err |-> "none",
        obj |-> [b.obj EXCEPT !.decoder_with_delim =
                   [i \in {v[k] : k \in DOMAIN token_del} |->
                      WithDelim(b.obj.decoder[i], token_del[b.obj.decoder[i]])]]]

\* opencl.ClangFormat(text): the formatter is not part of the tokenizers; the
\* model marks the text it was given.
ClangFormat(text) == <<"clang-format">> \o text

\* ASTokenizer.AtomizeString, with split the list opencl.AtomizeSource
\* returns for the text and the keys of the vocabulary.
ASTAtomizeString(self, text, split) ==
  IF \E k \in DOMAIN split : split[k] \notin DOMAIN self.vocab
  THEN [err |-> "ValueError", obj |-> self]
  ELSE IF \E k \in DOMAIN split :
            self.vocab[split[k]] \notin DOMAIN self.decoder
    THEN [err |-> "ValueError", obj |-> self]
  ELSE [err |-> "none", obj |-> self,
        val |-> [k \in DOMAIN split |-> self.decoder[self.vocab[split[k]]]]]

\* ASTokenizer.TokenizeString
ASTTokenizeString(self, text, split) ==
  LET at == ASTAtomizeString(self, text, split) IN
  IF at.err # "none" THEN at
  ELSE IF \E k \in DOMAIN at.val : at.val[k] \notin DOMAIN self.vocab
    THEN [err |-> "KeyError", obj |-> self]
  ELSE [err |-> "none", obj |-> self,
        val |-> [k \in DOMAIN at.val |-> self.vocab[at.val[k]]]]

\* The keys read by the exponent rule of ASTokenizer.tokensToString.
ExpLower == <<"e">> \o CharBased
ExpUpper == <<"E">> \o CharBased
Plus == <<"+">>
Minus == <<"-">>

\* One element of the loop of ASTokenizer.tokensToString without formatting:
\* the exception raised and the text appended for encoded[idx] (idx 0-based).
ASTDecodeAt(self, encoded, idx, ignore_token) ==
  LET x == encoded[idx + 1] IN
  IF x = ignore_token THEN [err |-> "none", val |-> <<>>]
  ELSE IF x \notin DOMAIN self.decoder_with_delim THEN [err |-> "KeyError"]
  ELSE LET ct == self.decoder_with_delim[x] IN
    IF ExpLower \notin DOMAIN self.vocab \/ ExpUpper \notin DOMAIN self.vocab
    THEN [err |-> "KeyError"]
    ELSE IF x \notin {self.vocab[ExpLower], self.vocab[ExpUpper]}
      THEN [err |-> "none", val |-> ct]
    ELSE IF idx + 1 >= Len(encoded) THEN [err |-> "none", val |-> ct]
    ELSE IF Plus \notin DOMAIN self.vocab \/ Minus \notin DOMAIN self.vocab
      THEN [err |-> "KeyError"]
    ELSE IF encoded[idx + 2] \in {self.vocab[Plus], self.vocab[Minus]}
      THEN [err |-> "none", val |-> ct \o <<" ">>]
    ELSE [err |-> "none", val |-> ct]

\* ASTokenizer.tokensToString on a one-dimensional sequence.
ASTDecode1(self, encoded, ignore_token, with_formatting) ==
  IF ~with_formatting
  THEN LET rs == [k \in DOMAIN encoded |->
                    ASTDecodeAt(self, encoded, k - 1, ignore_token)]
       IN IF \E k \in DOMAIN rs : rs[k].err # "none"
          THEN [err |-> "KeyError"]
          ELSE [err |-> "none",
                val |-> Join([k \in DOMAIN rs |-> rs[k].val])]
  ELSE IF \E k \in DOMAIN encoded :
            encoded[k] # ignore_token
              /\ encoded[k] \notin DOMAIN self.decoder_with_delim
    THEN [err |-> "KeyError"]
  ELSE [err |-> "none",
        val |-> ClangFormat(Join([k \in DOMAIN encoded |->
                  IF encoded[k] # ignore_token
                  THEN self.decoder_with_delim[encoded[k]] ELSE <<>>]))]

---------------------------------------------------------------------------
(* Dispatch on the class of the object. *)

\* TokenizeString that leaves a word tokenizer growable.
TokenizeStringOfUnfreezing(self, text, split) ==
  IF self.kind = "word"
  THEN [WordTokenizeString(self, text) EXCEPT !.obj.determine_chars = TRUE]
  ELSE IF self.kind = "ast" THEN ASTTokenizeString(self, text, split)
  ELSE LET r == CharTokenizeString(self, text) IN
       IF r.err # "none" THEN [err |-> r.err, obj |-> self]
       ELSE [err |-> "none", val |-> r.val, obj |-> self]

\* self.TokenizeString(text): the exception raised, the indices returned and
\* the object afterwards.  split is the list opencl.AtomizeSource returns for
\* the text, which only an ASTokenizer asks for.
TokenizeStringOf(self, text, split) ==
  IF self.kind = "word" THEN WordTokenizeString(self, text)
  ELSE IF self.kind = "ast" THEN ASTTokenizeString(self, text, split)
  ELSE LET r == CharTokenizeString(self, text) IN
       IF r.err # "none" THEN [err |-> r.err, obj |-> self]
       ELSE [err |-> "none", val |-> r.val, obj |-> self]

\* TokenizerBase.AtomizeString
BaseAtomizeString(self, text) ==
  Bind(TokenizeStringOf(self, text, <<>>), LAMBDA t :
  IF t.err # "none" THEN t
  ELSE IF \E k \in DOMAIN t.val : t.val[k] \notin DOMAIN t.obj.decoder
    THEN [err |-> "KeyError", obj |-> t.obj]
  ELSE [err |-> "none", obj |-> t.obj,
        val |-> [k \in DOMAIN t.val |-> t.obj.decoder[t.val[k]]]])

\* self.AtomizeString(text)
AtomizeStringOf(self, text, split) ==
  IF self.kind = "ast" THEN ASTAtomizeString(self, text, split)
  ELSE BaseAtomizeString(self, text)

\* The index of the first element of a sequence of results that raised; 0 if
\* none did.
FirstRaise(rs) ==
  IF \A k \in DOMAIN rs : rs[k].err = "none" THEN 0
  ELSE CHOOSE k \in DOMAIN rs :
         rs[k].err # "none" /\ \A m \in 1..(k - 1) : rs[m].err = "none"

\* tokensToString whose recursive call does not pass ignore_token on.
RECURSIVE TokensToStringDropsIgnore(_, _, _, _, _)
TokensToStringDropsIgnore(self, encoded, ndim, ignore_token, wf) ==
  IF ndim > 1
  THEN LET rs == [k \in DOMAIN encoded |->
                    TokensToStringDropsIgnore(self, encoded[k], ndim - 1,
                                              None, wf)]
           f == FirstRaise(rs)
       IN IF f # 0 THEN [err |-> rs[f].err]
          ELSE [err |-> "none", val |-> [k \in DOMAIN rs |-> rs[k].val]]
  ELSE IF ndim = 1
  THEN IF self.kind = "ast"
       THEN ASTDecode1(self, encoded, ignore_token, wf)
       ELSE BaseDecode1(self.decoder, encoded, ignore_token)
  ELSE [err |-> "ValueError"]

\* self.tokensToString(encoded, ignore_token, with_formatting) for an encoded
\* of np.ndim(encoded) = ndim.
RECURSIVE TokensToStringOf(_, _, _, _, _)
TokensToStringOf(self, encoded, ndim, ignore_token, with_formatting) ==
  IF ndim > 1
  THEN LET rs == [k \in DOMAIN encoded |->
                    TokensToStringOf(self, encoded[k], ndim - 1,
                                     ignore_token,
                                     self.kind = "ast" /\ with_formatting)]
           f == FirstRaise(rs)
       IN IF f # 0 THEN [err |-> rs[f].err]
          ELSE [err |-> "none", val |-> [k \in DOMAIN rs |-> rs[k].val]]
  ELSE IF ndim = 1
  THEN IF self.kind = "ast"
       THEN ASTDecode1(self, encoded, ignore_token, with_formatting)
       ELSE BaseDecode1(self.decoder, encoded, ignore_token)
  ELSE [err |-> "ValueError"]

\* ArrayToCode that passes encoded on as it is.
ArrayToCodeUnfiltered(self, encoded, ndim, hashable, with_formatting) ==
  IF ndim = 0 THEN [err |-> "TypeError"]
  ELSE TokensToStringOf(self, encoded, ndim, None, with_formatting)

\* TokenizerBase.ArrayToCode for an encoded of np.ndim(encoded) = ndim whose
\* elements are hashable (integers, tuples) or not (lists, arrays).
ArrayToCodeOf(self, encoded, ndim, hashable, with_formatting) ==
  IF ndim = 0 THEN [err |-> "TypeError"]
  ELSE IF ndim > 1 /\ ~hashable THEN [err |-> "TypeError"]
  ELSE IF ndim > 1
    THEN TokensToStringOf(self, encoded, ndim, None, with_formatting)
  ELSE TokensToStringOf(self,
         SelectSeq(encoded, LAMBDA x : x \notin self.metaTokenValues),
         1, None, with_formatting)

\* TokenizerBase.StringArrToCode and ASTokenizer.StringArrToCode, which
\* renders each atom kept with its delimiter.
StringArrToCodeOf(self, text, with_formatting) ==
  LET mtstr == Range(MetaValues(self.metaTokens))
      kept == SelectSeq(text, LAMBDA x : x \notin mtstr)
  IN IF self.kind # "ast" THEN [err |-> "none", val |-> Join(kept)]
     ELSE IF \E k \in DOMAIN kept :
               \/ kept[k] \notin DOMAIN self.vocab
               \/ self.vocab[kept[k]] \notin DOMAIN self.decoder_with_delim
       THEN [err |-> "KeyError"]
     ELSE LET src == Join([k \in DOMAIN kept |->
                             self.decoder_with_delim[self.vocab[kept[k]]]])
          IN [err |-> "none",
              val |-> IF with_formatting THEN ClangFormat(src) ELSE src]

\* SrcLoop with a two-newline atom that leaves the column where it is.
RECURSIVE SrcLoopKeepsColumn(_, _, _, _, _, _, _)
SrcLoopKeepsColumn(self, str_atoms, i, lidx, cidx, locs, indices) ==
  IF i >= Len(str_atoms) THEN indices
  ELSE
    LET token == str_atoms[i + 1]
        isMeta == token \in Range(MetaValues(self.metaTokens))
        lidx1 == IF isMeta THEN lidx
                 ELSE IF token = <<"\n", "\n">> THEN lidx + 2
                 ELSE IF token = <<"\n">> THEN lidx + 1
                 ELSE lidx
        cidx1 == IF isMeta \/ token = <<"\n", "\n">> THEN cidx
                 ELSE IF token = <<"\n">> THEN 1
                 ELSE cidx + Len(token)
    IN IF lidx1 = locs[1][1] /\ cidx1 > locs[1][2]
       THEN IF Len(locs) = 1 THEN Append(indices, i)
            ELSE SrcLoopKeepsColumn(self, str_atoms, i + 1, lidx1, cidx1,
                                    Tail(locs), Append(indices, i))
       ELSE SrcLoopKeepsColumn(self, str_atoms, i + 1, lidx1, cidx1, locs,
                               indices)

\* SrcLoop that asks the next query of the atom that answered the last one.
RECURSIVE SrcLoopSameAtom(_, _, _, _, _, _, _)
SrcLoopSameAtom(self, str_atoms, i, lidx, cidx, locs, indices) ==
  IF i >= Len(str_atoms) THEN indices
  ELSE
    LET token == str_atoms[i + 1]
        isMeta == token \in Range(MetaValues(self.metaTokens))
        lidx1 == IF isMeta THEN lidx
                 ELSE IF token = <<"\n", "\n">> THEN lidx + 2
                 ELSE IF token = <<"\n">> THEN lidx + 1
                 ELSE lidx
        cidx1 == IF isMeta THEN cidx
                 ELSE IF token \in {<<"\n", "\n">>, <<"\n">>} THEN 1
                 ELSE cidx + Len(token)
        hits == {n \in 1 .. Len(locs) :
                   \A k \in 1 .. n : lidx1 = locs[k][1] /\ cidx1 > locs[k][2]}
        n == Cardinality(hits)
    IN IF n = Len(locs) /\ n > 0 THEN indices \o [k \in 1 .. n |-> i]
       ELSE SrcLoopSameAtom(self, str_atoms, i + 1, lidx1, cidx1,
                            SubSeq(locs, n + 1, Len(locs)),
                            indices \o [k \in 1 .. n |-> i])

\* The loop of TokenizerBase.SrcLocationToIndex from element i of str_atoms
\* on: locs holds the current location (l, c) and those locit has left.
RECURSIVE SrcLoop(_, _, _, _, _, _, _)
SrcLoop(self, str_atoms, i, lidx, cidx, locs, indices) ==
  IF i >= Len(str_atoms) THEN indices
  ELSE
    LET token == str_atoms[i + 1]
        lidx1 == IF token \in Range(MetaValues(self.metaTokens)) THEN lidx
                 ELSE IF token = <<"\n", "\n">> THEN lidx + 2
                 ELSE IF token = <<"\n">> THEN lidx + 1
                 ELSE lidx
        cidx1 == IF token \in Range(MetaValues(self.metaTokens)) THEN cidx
                 ELSE IF token = <<"\n", "\n">> THEN 1
                 ELSE IF token = <<"\n">> THEN 1
                 ELSE cidx + Len(token)
    IN IF lidx1 = locs[1][1] /\ cidx1 > locs[1][2]
       THEN IF Len(locs) = 1 THEN Append(indices, i)
            ELSE SrcLoop(self, str_atoms, i + 1, lidx1, cidx1, Tail(locs),
                         Append(indices, i))
       ELSE SrcLoop(self, str_atoms, i + 1, lidx1, cidx1, locs, indices)

\* self.SrcLocationToIndex(encoded, locations): the exception raised and the
\* list returned.  An ASTokenizer does not implement it.
SrcLocationToIndexOf(self, encoded, locations) ==
  IF self.kind = "ast" THEN [err |-> "NotImplementedError"]
  ELSE
    LET rs == [k \in DOMAIN encoded |->
                 TokensToStringOf(self, <<encoded[k]>>, 1, None, FALSE)]
    IN IF FirstRaise(rs) # 0 THEN [err |-> rs[FirstRaise(rs)].err]
       ELSE IF locations = <<>> THEN [err |-> "none", val |-> <<>>]
       ELSE [err |-> "none",
             val |-> SrcLoop(self, [k \in DOMAIN rs |-> rs[k].val], 0, 1, 1,
                             locations, <<>>)]

---------------------------------------------------------------------------
(* ToFile and FromFile: pickle writes the class of the object and the items
   of its __dict__, and builds the object again from them without calling
   __init__. *)

\* The attributes an object of class k has.
Attributes(k) ==
  {"vocab", "metaTokens", "vocab_size", "decoder", "metaTokenValues"}
    \cup (IF k = "word" THEN {"determine_chars", "lookup"} ELSE {})
    \cup (IF k = "ast" THEN {"decoder_with_delim"} ELSE {})
\* Those that hold a dict.
DictAttributes == {"vocab", "decoder", "lookup", "decoder_with_delim"}

\* The items of dict d, and the dict with these items.
Items(d) == {<<k, d[k]>> : k \in DOMAIN d}
FromItems(s) == [k \in {p[1] : p \in s} |-> (CHOOSE p \in s : p[1] = k)[2]]

\* A pickle that leaves out the tables derived from the vocabulary.
PickleWithoutTables(self) ==
  [class |-> self.kind,
   state |-> [n \in Attributes(self.kind) \ {"lookup", "decoder_with_delim"}
                |-> IF n \in DictAttributes THEN Items(self[n]) ELSE self[n]]]

\* pickle.dump(self, f): what the file holds.
Pickle(self) ==
  [class |-> self.kind,
   state |-> [n \in Attributes(self.kind) |->
                IF n \in DictAttributes THEN Items(self[n]) ELSE self[n]]]

\* pickle.load(infile): the object built from the file.
Unpickle(blob) ==
  LET Dict(n, default) == IF n \in DOMAIN blob.state
                          THEN FromItems(blob.state[n]) ELSE default
  IN [kind |-> blob.class,
      vocab |-> Dict("vocab", EmptyDict),
      metaTokens |-> blob.state["metaTokens"],
      vocab_size |-> blob.state["vocab_size"],
      decoder |-> Dict("decoder", EmptyDict),
      metaTokenValues |-> blob.state["metaTokenValues"],
      determine_chars |-> IF "determine_chars" \in DOMAIN blob.state
                          THEN blob.state["determine_chars"] ELSE FALSE,
      lookup |-> Dict("lookup", NoLookup),
      decoder_with_delim |-> Dict("decoder_with_delim", NoDelim)]

\* No file at path.
NoFile == [class |-> "none", state |-> <<>>]

---------------------------------------------------------------------------
(* The FromText constructors. *)

\* Counter(text)[c]
Count(text, c) == Cardinality({k \in DOMAIN text : text[k] = c})

\* list(Counter(text)): the distinct characters of the text in the order of
\* their first occurrence.
RECURSIVE CounterKeys(_)
CounterKeys(text) ==
  IF text = <<>> THEN <<>>
  ELSE LET init == CounterKeys(SubSeq(text, 1, Len(text) - 1))
           c == text[Len(text)]
       IN IF c \in Range(init) THEN init ELSE Append(init, c)

\* s without its k-th element.
Remove(s, k) == SubSeq(s, 1, k - 1) \o SubSeq(s, k + 1, Len(s))

\* The sort below with key=lambda x: x[1]: by ascending count.
RECURSIVE SortByCountAscending(_, _)
SortByCountAscending(text, keys) ==
  IF keys = <<>> THEN <<>>
  ELSE LET k == CHOOSE k \in DOMAIN keys :
                  /\ \A m \in DOMAIN keys :
                       Count(text, keys[m]) >= Count(text, keys[k])
                  /\ \A m \in 1..(k - 1) :
                       Count(text, keys[m]) > Count(text, keys[k])
       IN <<keys[k]>> \o SortByCountAscending(text, Remove(keys, k))

\* sorted(counter.items(), key=lambda x: -x[1]), as the sequence of its keys:
\* a stable sort of the keys by descending count.
RECURSIVE SortByCount(_, _)
SortByCount(text, keys) ==
  IF keys = <<>> THEN <<>>
  ELSE LET k == CHOOSE k \in DOMAIN keys :
                  /\ \A m \in DOMAIN keys :
                       Count(text, keys[m]) <= Count(text, keys[k])
                  /\ \A m \in 1..(k - 1) :
                       Count(text, keys[m]) < Count(text, keys[k])
       IN <<keys[k]>> \o SortByCount(text, Remove(keys, k))

\* AsciiCharacterTokenizer.FromText
CharFromTextOf(text, mask_tokens) ==
  LET mt == MetaTokensFor(mask_tokens)
      count_pairs == SortByCount(text, CounterKeys(text))
  IN IF count_pairs = <<>> THEN [err |-> "ValueError"]
     ELSE LET atoms == MetaValues(mt)
                         \o [k \in DOMAIN count_pairs |-> <<count_pairs[k]>>]
          IN CharInit(TRUE, DictZip(atoms), mt)

\* WordTokenizer.FromText keeping, of the atoms of phase 1, only those of
\* token_list.
WordFromTextOfCandidates(text, token_list, mask_tokens, wordpiece, order) ==
  IF token_list = {} THEN [err |-> "ValueError"]
  ELSE IF wordpiece THEN [err |-> "NotImplementedError"]
  ELSE
    LET mt == MetaTokensFor(mask_tokens)
        full_vocab == DictZip(order)
    IN Bind(WordInit(TRUE, full_vocab, mt, TRUE), LAMBDA c :
       IF c.err # "none" THEN [err |-> c.err]
       ELSE Bind(AtomizeStringOf(c.obj, text, <<>>), LAMBDA at :
            IF at.err # "none" THEN [err |-> at.err]
            ELSE LET tokens == MetaValues(mt)
                                 \o Sorted(Range(at.val) \cap token_list)
                 IN Bind(WordInit(TRUE, DictZip(tokens), mt, FALSE),
                         LAMBDA w :
                    IF w.err # "none" THEN [err |-> w.err]
                    ELSE [err |-> "none", obj |-> w.obj,
                          atoms |-> at.val])))

\* WordTokenizer.FromText, with order the order in which Python iterates over
\* the set token_list: the exception raised, the object returned and the
\* atoms of phase 1.
WordFromTextOf(text, token_list, mask_tokens, wordpiece, order) ==
  IF token_list = {} THEN [err |-> "ValueError"]
  ELSE IF wordpiece THEN [err |-> "NotImplementedError"]
  ELSE
    LET mt == MetaTokensFor(mask_tokens)
        full_vocab == DictZip(order)
    IN Bind(WordInit(TRUE, full_vocab, mt, TRUE), LAMBDA c :
       IF c.err # "none" THEN [err |-> c.err]
       ELSE Bind(AtomizeStringOf(c.obj, text, <<>>), LAMBDA at :
            IF at.err # "none" THEN [err |-> at.err]
            ELSE LET tokens == MetaValues(mt) \o SortedSet(at.val)
                 IN Bind(WordInit(TRUE, DictZip(tokens), mt, FALSE),
                         LAMBDA w :
                    IF w.err # "none" THEN [err |-> w.err]
                    ELSE [err |-> "none", obj |-> w.obj,
                          atoms |-> at.val])))

\* An update that keeps nothing of a.
UpdateDictReplacing(a, b) == b

\* a.update(b)
UpdateDict(a, b) ==
  [k \in DOMAIN a \cup DOMAIN b |-> IF k \in DOMAIN b THEN b[k] ELSE a[k]]

\* ASTokenizer.FromText after the discovery pass, with order the order in
\* which Python iterates over the set token_list: the mapping source_tokens
\* with the meta tokens, the exception raised and the object returned.
ASTFromTextTokens(merged, mask_tokens) ==
  UpdateDict(merged,
             [mt \in Range(MetaValues(MetaTokensFor(mask_tokens))) |-> <<>>])
ASTFromTextOf(merged, mask_tokens, order) ==
  ASTInit(TRUE, DictZip(order), MetaTokensFor(mask_tokens),
          ASTFromTextTokens(merged, mask_tokens))

\* "False if x is None else x" for an optional flag of the configuration.
FlagOf(x) == x = "True"

\* A factory that builds a character tokenizer for a token type it does not
\* know.
FactoryOfDefaulting(config, text, order) ==
  IF config.token_type = "word"
  THEN IF ~config.token_list.given THEN [err |-> "TypeError"]
       ELSE WordFromTextOf(text, config.token_list.tokens,
                           FlagOf(config.mask_tokens),
                           FlagOf(config.wordpiece_tokenization), order)
  ELSE CharFromTextOf(text, FlagOf(config.mask_tokens))

\* The factory FromText(config, contentfile_separator, corpus_txt) for the
\* token types other than "ast": the exception raised and the object
\* returned.  open() of a token list that is not given raises.
FactoryOf(config, text, order) ==
  IF config.token_type = "character"
  THEN CharFromTextOf(text, FlagOf(config.mask_tokens))
  ELSE IF config.token_type = "word"
  THEN IF ~config.token_list.given THEN [err |-> "TypeError"]
       ELSE WordFromTextOf(text, config.token_list.tokens,
                           FlagOf(config.mask_tokens),
                           FlagOf(config.wordpiece_tokenization), order)
  ELSE [err |-> "NotImplementedError"]

---------------------------------------------------------------------------
(* The inputs of the model. *)

\* The sequences over S of length at most n.
SeqsUpTo(S, n) == UNION {[1..k -> S] : k \in 0..n}

\* The texts made of at most n pieces of P.
Texts(P, n) == {Join(s) : s \in SeqsUpTo(P, n)}

\* The atoms, besides the meta tokens, of the vocabularies given to the
\* constructor of a character tokenizer and of a word tokenizer.
CharAtoms == {<<"a">>, <<"b">>, <<"[">>}
WordAtoms == {<<"a">>, <<"a", "b">>, <<"b", "c">>, <<"a", "b", "c">>}

\* The atom keys of the vocabularies given to the constructor of an AST
\* tokenizer, and a key that is in none of them.
ASTAtoms == {ExpLower, ExpUpper, Plus, Minus}
ASTOther == <<"x">>

\* The key of the char-based atom of a backslash, and the vocabulary that
\* holds it.
EscapeKey == <<"\\">> \o CharBased
EscapeVocabs(mask) == IF mask THEN {} ELSE {DictZip(<<EscapeKey>>)}

\* The token_del dicts given to the constructor of an AST tokenizer with
\* vocabulary v: every key with the delimiter '' or ' ', one key left out, and
\* one key too many.
TokenDels(v) ==
  {[k \in DOMAIN v |-> <<>>], [k \in DOMAIN v |-> <<" ">>],
   [k \in DOMAIN v \cup {ASTOther} |-> <<>>]}
    \cup {[k \in DOMAIN v \ {m} |-> <<>>] : m \in DOMAIN v \cap {Minus}}

\* The text given to an AST tokenizer and the lists opencl.AtomizeSource
\* returns for it.
ASTTexts == {<<"e", "+", "x">>}
ASTSplits == SeqsUpTo(ASTAtoms \cup {ASTOther}, MaxSplit)

\* What opencl.DeriveSourceVocab does with a chunk of the corpus: it returns
\* a dict from atom keys to delimiters, or raises.  The corpora hold the
\* key "x" with two delimiters, and the keys of the exponent rule.
Extracted(tl) == [raises |-> FALSE, tl |-> tl]
ChunkResults ==
  {Extracted([k \in {ASTOther} |-> <<>>]),
   Extracted([k \in {ASTOther} |-> <<" ">>]),
   Extracted([k \in ASTAtoms |-> <<>>]),
   [raises |-> TRUE, tl |-> EmptyDict]}
\* text.split(contentfile_separator) has at least one chunk.
DiscoveryCorpora == SeqsUpTo(ChunkResults, MaxChunks) \ {<<>>}

\* The configurations given to the factory: a token type, the token list (not
\* given, or a file with an empty or a non-empty list of tokens) and the two
\* optional flags.
TokenLists ==
  {[given |-> FALSE, tokens |-> {}], [given |-> TRUE, tokens |-> {}],
   [given |-> TRUE, tokens |-> {<<"a", "b">>}]}
Flags == {"None", "True", "False"}
Configs ==
  [token_type : {"character", "word", "ast", "other"},
   token_list : TokenLists, mask_tokens : Flags,
   wordpiece_tokenization : Flags]
\* The corpus given to the factory: "ab", and for the token type "ast" one
\* chunk with the key "x".
FactoryText == <<"a", "b">>
FactoryChunks == <<Extracted([k \in {ASTOther} |-> <<>>])>>

\* The texts given to a character tokenizer and to a word tokenizer.
CharPieces == {<<"a">>, <<"b">>, <<"[">>, START}
WordPieces == {<<"a">>, <<"b">>, <<"c">>}
GrowPieces == {<<"a">>, <<"b">>}
\* "[START]ab[END]"
MarkedText == START \o <<"a", "b">> \o END
CharTexts == Texts(CharPieces, MaxCharText) \cup {MarkedText}
WordTexts == Texts(WordPieces, MaxWordText)
                \cup Texts({<<"a">>, START}, MaxMetaText)
GrowTexts == Texts(GrowPieces, MaxGrowText)
CorpusTexts == Texts(CharPieces, MaxCorpus)
WordCorpusTexts == Texts(WordPieces, MaxWordCorpus)
                     \cup Texts({<<"a">>, START}, MaxMetaText)

\* The vocabulary dicts given to a constructor: the atoms of seq numbered
\* from 0, numbered with gaps, and numbered with one index used twice.
GapVocab(seq) == [a \in Range(seq) |-> 2 * DictZip(seq)[a] + 1]
DupVocab(seq) ==
  [a \in Range(seq) |-> Min(DictZip(seq)[a], Max(Len(seq) - 2, 0))]
CtorVocabs(atoms, mask) ==
  LET metaParts == IF mask THEN {MetaValues(MaskMetaTokens),
                                 Tail(MetaValues(MaskMetaTokens))}
                   ELSE {<<>>}
      seqs == {m \o Sorted(S) : m \in metaParts, S \in SUBSET atoms}
  IN {DictZip(q) : q \in seqs}
       \cup (IF mask THEN {}
             ELSE {GapVocab(q) : q \in seqs} \cup {DupVocab(q) : q \in seqs})

\* The index sequences given to the decode operations: one-dimensional ones,
\* and nested ones of np.ndim 2 and 3 (all rows of one length).  Indices 0 and
\* 1 are meta tokens when masking is on, 6 and 7 are then the first other
\* atoms; each of them is missing from some decoder.
EncIndices == {0, 1, 6, 7}
Enc1 == SeqsUpTo(EncIndices, MaxEncLen)
BatchRows == {<<0, 6>>, <<6, 1>>, <<1, 7>>}
\* For an AST tokenizer: 3 is the exponent atom of the vocabulary of all keys
\* of ASTAtoms numbered from 0, 0 and 1 are its sign atoms.
ASTEncIndices == {0, 1, 3, 9}
ASTEnc1 == SeqsUpTo(ASTEncIndices, MaxEncLen)
ASTBatchRows == {<<3, 0>>, <<1, 3>>, <<3, 9>>}
ASTEnc2 == SeqsUpTo(ASTBatchRows, MaxBatch) \ {<<>>}
ASTEnc3 == {<<b>> : b \in {c \in ASTEnc2 : Len(c) = 1}}
ASTEncoded ==
  {[ndim |-> 1, data |-> e] : e \in ASTEnc1}
    \cup {[ndim |-> 2, data |-> e] : e \in ASTEnc2}
    \cup {[ndim |-> 3, data |-> e] : e \in ASTEnc3}
Enc2 == SeqsUpTo(BatchRows, MaxBatch) \ {<<>>}
Enc3 == {<<b>> : b \in {c \in Enc2 : Len(c) = 1}}
Encoded ==
  {[ndim |-> 1, data |-> e] : e \in Enc1}
    \cup {[ndim |-> 2, data |-> e] : e \in Enc2}
    \cup {[ndim |-> 3, data |-> e] : e \in Enc3}
IgnoreTokens == {None, 0}
\* A vocabulary with the newline atoms SrcLocationToIndex tells apart: with
\* masking on, "a" is 6, "\n" is 7 and "\n\n" is 8.
LineVocabs(mask) ==
  IF mask
  THEN {DictZip(MetaValues(MaskMetaTokens)
                  \o << <<"a">>, <<"\n">>, <<"\n", "\n">> >>)}
  ELSE {}
\* The source locations asked for: at most two (line, column) pairs, in
\* order of asking.
LocLines == 1 .. 3
LocColumns == 1 .. 2
Locations ==
  {<<>>} \cup {<<p>> : p \in LocLines \X LocColumns}
         \cup {<<p, q>> : p, q \in LocLines \X LocColumns}
\* The index sequences given to SrcLocationToIndex: over a meta token and
\* the atoms of a vocabulary with newlines, and one with a missing index.
LineEncoded == SeqsUpTo({0, 6, 7, 8}, MaxLineEnc) \cup {<<6, 9>>}
InputLocated ==
  IF kind # "ast" /\ <<"\n">> \in DOMAIN vocab
  THEN LineEncoded \X Locations
  ELSE {<<>>, <<0, 6>>, <<7>>} \X {<<>>, << <<1, 1>> >>}

\* The lists of atoms given to StringArrToCode.
StringArrs ==
  {<<>>, <<START, <<"a">>, END>>, <<<<"a">>, <<"a", "b">>>>,
   <<START, Plus, ASTOther>>, <<ExpLower, Minus>>}

\* The with_formatting arguments: only an ASTokenizer reads the parameter.
Formattings == IF kind = "ast" THEN BOOLEAN ELSE {FALSE}
\* The index sequences a caller gives to the object.
InputEncoded == IF kind = "ast" THEN ASTEncoded ELSE Encoded

---------------------------------------------------------------------------
(* The state machine: one object, built by a constructor and then used. *)

NoArg == [none |-> TRUE]

Self ==
  [kind |-> kind, vocab |-> vocab, metaTokens |-> metaTokens,
   vocab_size |-> vocab_size, decoder |-> decoder,
   metaTokenValues |-> metaTokenValues, determine_chars |-> determine_chars,
   lookup |-> lookup, decoder_with_delim |-> decoder_with_delim]

\* The object becomes obj.
SetSelf(obj) ==
  /\ kind' = obj.kind
  /\ vocab' = obj.vocab
  /\ metaTokens' = obj.metaTokens
  /\ vocab_size' = obj.vocab_size
  /\ decoder' = obj.decoder
  /\ metaTokenValues' = obj.metaTokenValues
  /\ determine_chars' = obj.determine_chars
  /\ lookup' = obj.lookup
  /\ decoder_with_delim' = obj.decoder_with_delim

Init ==
  /\ pc = "new"
  /\ kind = "none"
  /\ vocab = EmptyDict
  /\ metaTokens = <<>>
  /\ vocab_size = 0
  /\ decoder = EmptyDict
  /\ metaTokenValues = {}
  /\ determine_chars = FALSE
  /\ lookup = NoLookup
  /\ decoder_with_delim = NoDelim
  /\ op = "none"
  /\ arg = NoArg
  /\ file = NoFile
  /\ saved = NoArg
  /\ pool = "none"
  /\ status = <<>>
  /\ queue = <<>>
  /\ source_tokens = EmptyDict
  /\ ret = <<>>
  /\ err = "none"
  /\ corpus = <<>>
  /\ phase1 = <<>>
  /\ criterion = "new"
  /\ left_token = ""
  /\ right_token = ""
  /\ sample_in_progress = <<>>
  /\ done = FALSE
  /\ token_depth = <<>>

\* A constructor returned obj or raised: r is its result.
Built(r) ==
  IF r.err = "none"
  THEN pc' = "returned" /\ SetSelf(r.obj)
  ELSE pc' = "failed" /\ UNCHANGED objvars

\* AsciiCharacterTokenizer(vocab, metaTokens)
ConstructChar ==
  /\ pc = "new"
  /\ \E mask \in BOOLEAN, isDict \in BOOLEAN :
       \E v \in CtorVocabs(CharAtoms, mask) :
         LET r == CharInit(isDict, v, MetaTokensFor(mask)) IN
         /\ Built(r)
         /\ op' = "__init__"
         /\ arg' = [kind |-> "char", isDict |-> isDict, vocab |-> v,
                    metaTokens |-> MetaTokensFor(mask),
                    determine_chars |-> FALSE]
         /\ err' = r.err
  /\ UNCHANGED <<ret, corpus, phase1>>
  /\ UNCHANGED <<envvars, poolvars>>
  /\ UNCHANGED samplervars

\* WordTokenizer(vocab, metaTokens, determine_chars)
ConstructWord ==
  /\ pc = "new"
  /\ \E mask \in BOOLEAN, isDict \in BOOLEAN, dc \in BOOLEAN :
       \E v \in CtorVocabs(WordAtoms, mask) \cup LineVocabs(mask) :
         LET r == WordInit(isDict, v, MetaTokensFor(mask), dc) IN
         /\ Built(r)
         /\ op' = "__init__"
         /\ arg' = [kind |-> "word", isDict |-> isDict, vocab |-> v,
                    metaTokens |-> MetaTokensFor(mask),
                    determine_chars |-> dc]
         /\ err' = r.err
  /\ UNCHANGED <<ret, corpus, phase1>>
  /\ UNCHANGED <<envvars, poolvars>>
  /\ UNCHANGED samplervars

\* ASTokenizer(vocab, metaTokens, token_del)
ConstructAST ==
  /\ pc = "new"
  /\ \E mask \in BOOLEAN, isDict \in BOOLEAN :
       \E v \in CtorVocabs(ASTAtoms, mask) \cup EscapeVocabs(mask) :
         \E token_del \in TokenDels(v) :
           LET r == ASTInit(isDict, v, MetaTokensFor(mask), token_del) IN
           /\ Built(r)
           /\ op' = "__init__"
           /\ arg' = [kind |-> "ast", isDict |-> isDict, vocab |-> v,
                      metaTokens |-> MetaTokensFor(mask),
                      determine_chars |-> FALSE, token_del |-> token_del]
           /\ err' = r.err
  /\ UNCHANGED <<ret, corpus, phase1>>
  /\ UNCHANGED <<envvars, poolvars>>
  /\ UNCHANGED samplervars

\* AsciiCharacterTokenizer.FromText(text, mask_tokens)
CharFromText ==
  /\ pc = "new"
  /\ \E text \in CorpusTexts, mask \in BOOLEAN :
       LET r == CharFromTextOf(text, mask) IN
       /\ Built(r)
       /\ op' = "CharFromText"
       /\ arg' = [text |-> text, mask_tokens |-> mask]
       /\ err' = r.err
       /\ corpus' = text
  /\ UNCHANGED <<ret, phase1>>
  /\ UNCHANGED <<envvars, poolvars>>
  /\ UNCHANGED samplervars

\* WordTokenizer.FromText(text, token_list, mask_tokens, wordpiece)
WordFromText ==
  /\ pc = "new"
  /\ \E text \in WordCorpusTexts, token_list \in SUBSET WordAtoms,
        mask \in BOOLEAN, wordpiece \in BOOLEAN :
       \E order \in SetOrders(token_list
                                \cup Range(MetaValues(MetaTokensFor(mask)))) :
         LET r == WordFromTextOf(text, token_list, mask, wordpiece, order) IN
         /\ Built(r)
         /\ op' = "WordFromText"
         /\ arg' = [text |-> text, token_list |-> token_list,
                    mask_tokens |-> mask, wordpiece |-> wordpiece]
         /\ err' = r.err
         /\ corpus' = text
         /\ phase1' = IF r.err = "none" THEN r.atoms ELSE <<>>
  /\ UNCHANGED ret
  /\ UNCHANGED <<envvars, poolvars>>
  /\ UNCHANGED samplervars

\* The discovery pass begins: the pool is made and given the chunks.
BeginDiscovery(chunks) ==
  /\ pc' = "discovering"
  /\ pool' = "open"
  /\ status' = [i \in DOMAIN chunks |-> "pending"]
  /\ queue' = <<>>
  /\ source_tokens' = EmptyDict
  /\ corpus' = chunks
  /\ err' = "none"
  /\ UNCHANGED <<objvars, ret, phase1, envvars>>

\* ASTokenizer.FromText(text, token_set, contentfile_separator, mask_tokens)
\* is called.
ASTFromText ==
  /\ pc = "new"
  /\ \E chunks \in DiscoveryCorpora, mask \in BOOLEAN :
       /\ op' = "ASTFromText"
       /\ arg' = [mask_tokens |-> mask]
       /\ BeginDiscovery(chunks)
  /\ UNCHANGED samplervars

\* FromText(config, contentfile_separator, corpus_txt): the factory.  For the
\* token type "ast" it calls ASTokenizer.FromText, whose discovery pass
\* begins.
FromText ==
  /\ pc = "new"
  /\ \E config \in Configs :
       /\ op' = "FromText"
       /\ arg' = [config |-> config, mask_tokens |-> FlagOf(config.mask_tokens)]
       /\ IF config.token_type = "ast"
          THEN BeginDiscovery(FactoryChunks)
          ELSE \E order \in SetOrders(config.token_list.tokens \cup
                  Range(MetaValues(MetaTokensFor(FlagOf(config.mask_tokens))))) :
                 LET r == FactoryOf(config, FactoryText, order) IN
                 /\ Built(r)
                 /\ err' = r.err
                 /\ corpus' = FactoryText
                 /\ phase1' = IF r.err = "none" /\ config.token_type = "word"
                              THEN r.atoms ELSE <<>>
                 /\ UNCHANGED <<ret, envvars, poolvars>>
  /\ UNCHANGED samplervars

\* A free worker of the pool takes the next chunk.
StartChunk ==
  /\ pc = "discovering"
  /\ Cardinality({j \in DOMAIN status : status[j] = "running"}) < PoolSize
  /\ \E i \in DOMAIN status :
       /\ status[i] = "pending"
       /\ \A j \in 1 .. (i - 1) : status[j] # "pending"
       /\ status' = [status EXCEPT ![i] = "running"]
  /\ UNCHANGED <<pc, objvars, op, arg, ret, err, corpus, phase1, envvars,
                 pool, queue, source_tokens>>
  /\ UNCHANGED samplervars

\* The number of results the coordinator has taken.
Taken == Cardinality({i \in DOMAIN status : status[i] = "merged"})

\* A worker that merges what it has extracted into source_tokens itself.
FinishChunkMerging ==
  /\ pc = "discovering"
  /\ \E i \in DOMAIN status :
       /\ status[i] = "running"
       /\ ~corpus[i].raises
       /\ Taken = Len(queue)
       /\ status' = [status EXCEPT ![i] = "merged"]
       /\ queue' = Append(queue, i)
       /\ source_tokens' = UpdateDict(source_tokens, corpus[i].tl)
  /\ UNCHANGED <<pc, objvars, op, arg, ret, err, corpus, phase1, envvars,
                 pool>>
  /\ UNCHANGED samplervars

\* A worker is done with its chunk: what opencl.DeriveSourceVocab returned or
\* raised goes to the coordinator.
FinishChunk ==
  /\ pc = "discovering"
  /\ \E i \in DOMAIN status :
       /\ status[i] = "running"
       /\ status' = [status EXCEPT ![i] = "finished"]
       /\ queue' = Append(queue, i)
  /\ UNCHANGED <<pc, objvars, op, arg, ret, err, corpus, phase1, envvars,
                 pool, source_tokens>>
  /\ UNCHANGED samplervars

\* pool.terminate(); raise e
Terminate(e) ==
  /\ pool' = "terminated"
  /\ status' = [i \in DOMAIN status |->
                  IF status[i] = "merged" THEN "merged" ELSE "cancelled"]
  /\ err' = e
  /\ pc' = "failed"
  /\ UNCHANGED <<objvars, op, arg, ret, corpus, phase1, envvars, queue,
                 source_tokens>>

\* A coordinator that drops the result of a chunk whose extraction raised and
\* goes on.
MergeResultSkipping ==
  /\ pc = "discovering"
  /\ Taken < Len(queue)
  /\ LET i == queue[Taken + 1] IN
     /\ source_tokens' = UpdateDict(source_tokens, corpus[i].tl)
     /\ status' = [status EXCEPT ![i] = "merged"]
     /\ UNCHANGED <<pc, objvars, op, arg, ret, err, corpus, phase1,
                    envvars, pool, queue>>
  /\ UNCHANGED samplervars

\* The coordinator takes the next result of pool.imap_unordered: it merges
\* the dict into source_tokens, or the exception of the worker is raised.
MergeResult ==
  /\ pc = "discovering"
  /\ Taken < Len(queue)
  /\ LET i == queue[Taken + 1] IN
     IF corpus[i].raises
     THEN Terminate("Exception")
     ELSE /\ source_tokens' = UpdateDict(source_tokens, corpus[i].tl)
          /\ status' = [status EXCEPT ![i] = "merged"]
          /\ UNCHANGED <<pc, objvars, op, arg, ret, err, corpus, phase1,
                         envvars, pool, queue>>
  /\ UNCHANGED samplervars

\* The caller is interrupted during the discovery pass.
KeyboardInterrupt ==
  /\ pc = "discovering"
  /\ Terminate("KeyboardInterrupt")
  /\ UNCHANGED samplervars

\* All results are merged: the pool is closed and the tokenizer is built.
ASTFromTextReturn ==
  /\ pc = "discovering"
  /\ \A i \in DOMAIN status : status[i] = "merged"
  /\ pool' = "closed"
  /\ source_tokens' = ASTFromTextTokens(source_tokens, arg.mask_tokens)
  /\ \E order \in SetOrders(DOMAIN ASTFromTextTokens(source_tokens,
                                                     arg.mask_tokens)) :
       LET r == ASTFromTextOf(source_tokens, arg.mask_tokens, order) IN
       /\ Built(r)
       /\ err' = r.err
  /\ UNCHANGED <<op, arg, ret, corpus, phase1, envvars, status, queue>>
  /\ UNCHANGED samplervars

\* The texts a caller gives to the object.
InputTexts ==
  IF kind = "char" THEN CharTexts
  ELSE IF kind = "ast" THEN ASTTexts
  ELSE IF determine_chars THEN GrowTexts ELSE WordTexts

\* The lists opencl.AtomizeSource may return to the object.
InputSplits == IF kind = "ast" THEN ASTSplits ELSE {<<>>}

\* self.TokenizeString(text)
TokenizeString ==
  /\ pc = "idle"
  /\ \E text \in InputTexts, split \in InputSplits :
       LET r == TokenizeStringOf(Self, text, split) IN
       /\ SetSelf(r.obj)
       /\ op' = "TokenizeString"
       /\ arg' = [text |-> text, split |-> split]
       /\ err' = r.err
       /\ ret' = IF r.err = "none" THEN r.val ELSE <<>>
  /\ pc' = "returned"
  /\ UNCHANGED <<corpus, phase1>>
  /\ UNCHANGED <<envvars, poolvars>>
  /\ UNCHANGED samplervars

\* self.AtomizeString(text)
AtomizeString ==
  /\ pc = "idle"
  /\ \E text \in InputTexts, split \in InputSplits :
       LET r == AtomizeStringOf(Self, text, split) IN
       /\ SetSelf(r.obj)
       /\ op' = "AtomizeString"
       /\ arg' = [text |-> text, split |-> split]
       /\ err' = r.err
       /\ ret' = IF r.err = "none" THEN r.val ELSE <<>>
  /\ pc' = "returned"
  /\ UNCHANGED <<corpus, phase1>>
  /\ UNCHANGED <<envvars, poolvars>>
  /\ UNCHANGED samplervars

\* self.tokensToString(encoded, ignore_token, with_formatting)
TokensToString ==
  /\ pc = "idle"
  /\ \E e \in InputEncoded, ignore_token \in IgnoreTokens, wf \in Formattings :
       LET r == TokensToStringOf(Self, e.data, e.ndim, ignore_token, wf) IN
       /\ op' = "tokensToString"
       /\ arg' = [encoded |-> e.data, ndim |-> e.ndim,
                  ignore_token |-> ignore_token, with_formatting |-> wf]
       /\ err' = r.err
       /\ ret' = IF r.err = "none" THEN r.val ELSE <<>>
  /\ pc' = "returned"
  /\ UNCHANGED <<objvars, corpus, phase1>>
  /\ UNCHANGED <<envvars, poolvars>>
  /\ UNCHANGED samplervars

\* self.ArrayToCode(encoded, with_formatting)
ArrayToCode ==
  /\ pc = "idle"
  /\ \E e \in InputEncoded, hashable \in BOOLEAN, wf \in Formattings :
       LET r == ArrayToCodeOf(Self, e.data, e.ndim, hashable, wf) IN
       /\ e.ndim = 1 => hashable
       /\ op' = "ArrayToCode"
       /\ arg' = [encoded |-> e.data, ndim |-> e.ndim,
                  hashable |-> hashable, with_formatting |-> wf]
       /\ err' = r.err
       /\ ret' = IF r.err = "none" THEN r.val ELSE <<>>
  /\ pc' = "returned"
  /\ UNCHANGED <<objvars, corpus, phase1>>
  /\ UNCHANGED <<envvars, poolvars>>
  /\ UNCHANGED samplervars

\* The caller takes the result of the call; the object is ready for the next.
Return ==
  /\ pc = "returned"
  /\ pc' = "idle"
  /\ op' = "none"
  /\ arg' = NoArg
  /\ ret' = <<>>
  /\ err' = "none"
  /\ corpus' = <<>>
  /\ phase1' = <<>>
  /\ pool' = "none"
  /\ status' = <<>>
  /\ queue' = <<>>
  /\ source_tokens' = EmptyDict
  /\ UNCHANGED objvars
  /\ UNCHANGED envvars
  /\ UNCHANGED samplervars

\* self.ToFile(path)
ToFile ==
  /\ pc = "idle"
  /\ file' = Pickle(Self)
  /\ saved' = Self
  /\ op' = "ToFile"
  /\ arg' = NoArg
  /\ err' = "none"
  /\ ret' = <<>>
  /\ pc' = "returned"
  /\ UNCHANGED <<objvars, corpus, phase1, poolvars>>
  /\ UNCHANGED samplervars

\* TokenizerBase.FromFile(path): the caller goes on with the object loaded.
\* Without a file open raises.
FromFile ==
  /\ pc = "idle"
  /\ IF file = NoFile
     THEN err' = "FileNotFoundError" /\ UNCHANGED objvars
     ELSE err' = "none" /\ SetSelf(Unpickle(file))
  /\ op' = "FromFile"
  /\ arg' = NoArg
  /\ ret' = <<>>
  /\ pc' = "returned"
  /\ UNCHANGED <<corpus, phase1, envvars, poolvars>>
  /\ UNCHANGED samplervars

\* self.StringArrToCode(text, with_formatting)
StringArrToCode ==
  /\ pc = "idle"
  /\ \E text \in StringArrs, wf \in Formattings :
       LET r == StringArrToCodeOf(Self, text, wf) IN
       /\ op' = "StringArrToCode"
       /\ arg' = [text |-> text, with_formatting |-> wf]
       /\ err' = r.err
       /\ ret' = IF r.err = "none" THEN r.val ELSE <<>>
  /\ pc' = "returned"
  /\ UNCHANGED <<objvars, corpus, phase1>>
  /\ UNCHANGED <<envvars, poolvars>>
  /\ UNCHANGED samplervars

\* self.SrcLocationToIndex(encoded, locations)
SrcLocationToIndex ==
  /\ pc = "idle"
  /\ \E in \in InputLocated :
       LET r == SrcLocationToIndexOf(Self, in[1], in[2]) IN
       /\ op' = "SrcLocationToIndex"
       /\ arg' = [encoded |-> in[1], locations |-> in[2]]
       /\ err' = r.err
       /\ ret' = IF r.err = "none" THEN r.val ELSE <<>>
  /\ pc' = "returned"
  /\ UNCHANGED <<objvars, corpus, phase1>>
  /\ UNCHANGED <<envvars, poolvars>>
  /\ UNCHANGED samplervars

\* The calls that only read the object are made before it is persisted:
\* they change neither the object nor the file, so that a caller who makes
\* them later sees what one who made them earlier saw.
Unsaved == file = NoFile

Next ==
  \/ ConstructChar
  \/ ConstructWord
  \/ ConstructAST
  \/ CharFromText
  \/ WordFromText
  \/ ASTFromText
  \/ FromText
  \/ StartChunk
  \/ FinishChunk
  \/ MergeResult
  \/ KeyboardInterrupt
  \/ ASTFromTextReturn
  \/ TokenizeString
  \/ AtomizeString
  \/ (Unsaved /\ TokensToString)
  \/ (Unsaved /\ ArrayToCode)
  \/ (Unsaved /\ StringArrToCode)
  \/ (Unsaved /\ SrcLocationToIndex)
  \/ ToFile
  \/ FromFile
  \/ Return

Spec == Init /\ [][Next]_vars

---------------------------------------------------------------------------
(* The symmetrical token depth criterion of samplers.py and the sampling   *)
(* loop of models/tf_bert.py that asks it.  A token is a string.           *)

\* Longest sample the sampling loop grows.
MaxSample == 4

\* The depth tokens a configuration may name ("" for a field left empty) and
\* the decoded tokens the model may sample.
DepthTokens == {"", "{", "}"}
SampleTokens == {"{", "}", "a"}

\* sampler.tokenized_start_text
StartTexts == {<<>>, <<"a">>}

\* SymmetricalTokenDepthCriterion.GetTokenDepth(sample_in_progress)
GetTokenDepth(left, right, sample) ==
  LET left_token_count == Count(sample, left)
      right_token_count == Count(sample, right)
  IN IF right_token_count # 0 /\ left_token_count = 0 THEN 0
     ELSE IF left_token_count = 0 THEN -1
     ELSE left_token_count - right_token_count

\* SymmetricalTokenDepthCriterion.SampleIsComplete(sample_in_progress)
SampleIsComplete(left, right, sample) ==
  IF Len(sample) = 0 THEN FALSE
  ELSE IF sample[Len(sample)] # right THEN FALSE
  ELSE GetTokenDepth(left, right, sample) = 0

\* SymmetricalTokenDepthCriterion(config): both depth tokens must be
\* non-empty, and different; the sampling loop then starts from the start
\* text.
NewCriterion ==
  /\ criterion = "new"
  /\ \E left \in DepthTokens, right \in DepthTokens, start \in StartTexts :
       IF left = "" \/ right = "" \/ left = right
       THEN /\ criterion' = "failed"
            /\ UNCHANGED <<left_token, right_token, sample_in_progress>>
       ELSE /\ criterion' = "built"
            /\ left_token' = left
            /\ right_token' = right
            /\ sample_in_progress' = start
  /\ UNCHANGED <<done, token_depth>>
  /\ UNCHANGED tokenizervars

\* One turn of the sampling loop: the decoded token is appended to the sample
\* and the criterion is asked whether the sample is complete.
AppendToken ==
  /\ criterion = "built"
  /\ ~done
  /\ Len(sample_in_progress) < MaxSample
  /\ \E token \in SampleTokens :
       /\ sample_in_progress' = Append(sample_in_progress, token)
       /\ done' = SampleIsComplete(left_token, right_token,
                                   Append(sample_in_progress, token))
  /\ token_depth' = <<>>
  /\ UNCHANGED <<criterion, left_token, right_token>>
  /\ UNCHANGED tokenizervars

\* GetTokenDepth is called on the sample as it is.
CallGetTokenDepth ==
  /\ criterion = "built"
  /\ token_depth = <<>>
  /\ token_depth' =
       <<GetTokenDepth(left_token, right_token, sample_in_progress)>>
  /\ UNCHANGED <<criterion, left_token, right_token, sample_in_progress, done>>
  /\ UNCHANGED tokenizervars

SamplerNext ==
  \/ NewCriterion
  \/ AppendToken
  \/ CallGetTokenDepth

SamplerSpec == Init /\ [][SamplerNext]_vars

---------------------------------------------------------------------------
(* Reference definitions the properties are stated with. *)

\* The text is a concatenation of atoms of A.
RECURSIVE IsConcat(_, _)
IsConcat(text, A) ==
  \/ text = <<>>
  \/ \E a \in A : /\ a # <<>>
                  /\ StartsWith(text, a)
                  /\ IsConcat(SubSeq(text, Len(a) + 1, Len(text)), A)

\* The text cut, from left to right, into the occurrences of the strings of
\* metas and the single characters between them.
RECURSIVE MetaSegments(_, _)
MetaSegments(text, metas) ==
  IF text = <<>> THEN <<>>
  ELSE LET ms == {m \in metas : StartsWith(text, m)}
           head == IF ms = {} THEN <<text[1]>> ELSE CHOOSE m \in ms : TRUE
       IN <<head>> \o MetaSegments(SubSeq(text, Len(head) + 1, Len(text)),
                                   metas)

\* The text cut, from left to right, into the longest atom of V of two or
\* more characters that starts at the cut, or else one character.
RECURSIVE GreedySegments(_, _)
GreedySegments(text, V) ==
  IF text = <<>> THEN <<>>
  ELSE LET L == {n \in 2..Len(text) : SubSeq(text, 1, n) \in V}
           n == IF L = {} THEN 1 ELSE CHOOSE x \in L : \A y \in L : y <= x
       IN <<SubSeq(text, 1, n)>>
            \o GreedySegments(SubSeq(text, n + 1, Len(text)), V)

\* The atoms the segmentation of the object reaches in the text.
RefSegments(text, split) ==
  IF kind = "ast" THEN split
  ELSE IF kind = "word" THEN GreedySegments(text, DOMAIN vocab)
  ELSE MetaSegments(text, Range(MetaValues(metaTokens)))

\* The last call was op and has returned or raised.
Called(o) == pc = "returned" /\ op = o

---------------------------------------------------------------------------
(* The properties. *)

\* C1: at every operation boundary of every tokenizer, also of a growable
\* WordTokenizer whose calls added characters, distinct atoms have distinct
\* indices, decoder is exactly the inverse of vocab and vocab_size = |vocab|.
VocabularyInvariant ==
  kind # "none" =>
    /\ \A a, b \in DOMAIN vocab : a # b => vocab[a] # vocab[b]
    /\ DOMAIN decoder = {vocab[a] : a \in DOMAIN vocab}
    /\ \A a \in DOMAIN vocab : decoder[vocab[a]] = a
    /\ vocab_size = Cardinality(DOMAIN vocab)

\* A call of a growable WordTokenizer has added the character b.
GrowableGrew ==
  /\ Called("TokenizeString")
  /\ determine_chars
  /\ <<"b">> \in DOMAIN vocab
  /\ vocab[<<"b">>] \in Range(ret)

\* The last call was TokenizeString(arg.text) on a frozen character or word
\* tokenizer.
FrozenEncode ==
  /\ Called("TokenizeString")
  /\ kind \in {"char", "word"}
  /\ ~determine_chars

\* tokensToString(ret) = arg.text
DecodesToText ==
  LET d == TokensToStringOf(Self, ret, 1, None, FALSE)
  IN d.err = "none" /\ d.val = arg.text

\* C2 as stated: on a frozen character or word tokenizer, TokenizeString of
\* a concatenation of atoms succeeds and tokensToString gives the text back.
RoundTripOfConcatenation ==
  (FrozenEncode /\ IsConcat(arg.text, DOMAIN vocab)) =>
    (err = "none" /\ DecodesToText)

\* C2 as amended: on a frozen character tokenizer, TokenizeString of a
\* concatenation of atoms succeeds; on a frozen word tokenizer it succeeds
\* when every atom the greedy longest-match segmentation reaches is in the
\* vocabulary; and whenever TokenizeString returns, tokensToString gives the
\* text back.
RoundTripWhenEncoded ==
  /\ (FrozenEncode /\ kind = "char" /\ IsConcat(arg.text, DOMAIN vocab)) =>
       err = "none"
  /\ (FrozenEncode /\ kind = "word"
        /\ Range(GreedySegments(arg.text, DOMAIN vocab)) \subseteq DOMAIN vocab)
       => err = "none"
  /\ (FrozenEncode /\ err = "none") => DecodesToText

\* A frozen tokenizer has encoded a text of two or more atoms, one of them
\* of two or more characters.
RoundTripHappened ==
  /\ FrozenEncode
  /\ err = "none"
  /\ Len(ret) >= 2
  /\ \E k \in DOMAIN ret : Len(decoder[ret[k]]) > 1

Constructed == pc \in {"returned", "failed"} /\ op = "__init__"

\* Two atoms of the vocabulary given to the constructor share an index.
SharedIndex ==
  \E a, b \in DOMAIN arg.vocab : a # b /\ arg.vocab[a] = arg.vocab[b]

\* A meta token given to the constructor is no key of the vocabulary, or a
\* key of token_del is none.
MissingKey ==
  \/ \E k \in DOMAIN arg.metaTokens :
       arg.metaTokens[k][2] \notin DOMAIN arg.vocab
  \/ /\ arg.kind = "ast"
     /\ \E k \in DOMAIN arg.token_del : k \notin DOMAIN arg.vocab

\* The constructor succeeded and set vocab_size, decoder and metaTokenValues.
ConstructionSucceeded ==
  /\ pc = "returned"
  /\ err = "none"
  /\ vocab = arg.vocab
  /\ vocab_size = Cardinality(DOMAIN arg.vocab)
  /\ DOMAIN decoder = {arg.vocab[a] : a \in DOMAIN arg.vocab}
  /\ \A a \in DOMAIN arg.vocab : decoder[arg.vocab[a]] = a
  /\ metaTokenValues =
       {arg.vocab[arg.metaTokens[k][2]] : k \in DOMAIN arg.metaTokens}

\* C4 as stated: construction raises TypeError when the vocabulary is not a
\* dict and ValueError when two atoms share an index; otherwise it succeeds
\* and sets vocab_size, decoder and metaTokenValues.
ConstructionFailsOnlyOnTypeOrIndex ==
  Constructed =>
    IF ~arg.isDict THEN err = "TypeError"
    ELSE IF SharedIndex THEN err = "ValueError"
    ELSE ConstructionSucceeded

\* C4 as amended: construction raises TypeError when the vocabulary is not a
\* dict, ValueError when two atoms share an index, and KeyError when a meta
\* token (or, for an ASTokenizer, a key of token_del) is no key of the
\* vocabulary; otherwise it succeeds and sets vocab_size, decoder and
\* metaTokenValues.
ConstructionOutcome ==
  Constructed =>
    IF ~arg.isDict THEN err = "TypeError"
    ELSE IF SharedIndex THEN err = "ValueError"
    ELSE IF MissingKey THEN err = "KeyError"
    ELSE ConstructionSucceeded

\* A constructor succeeded with meta tokens, and so set metaTokenValues.
ConstructedWithMetaTokens ==
  /\ Constructed
  /\ err = "none"
  /\ arg.metaTokens # <<>>
  /\ Cardinality(metaTokenValues) = Len(arg.metaTokens)

\* C5: WordTokenizer.FromText of any corpus text and non-empty candidate set
\* returns a frozen tokenizer that encodes the corpus text without an
\* out-of-vocabulary error, into the atoms the growable tokenizer of phase 1
\* produced for it.
PhaseEquivalence ==
  /\ (pc \in {"returned", "failed"} /\ op = "WordFromText"
        /\ arg.token_list # {} /\ ~arg.wordpiece) => err = "none"
  /\ (Called("WordFromText") /\ err = "none") =>
       /\ ~determine_chars
       /\ LET r == TokenizeStringOf(Self, corpus, <<>>) IN
          /\ r.err = "none"
          /\ Len(r.val) = Len(phase1)
          /\ \A k \in DOMAIN phase1 : decoder[r.val[k]] = phase1[k]

\* FromText returned for a corpus in which phase 1 found a candidate atom and
\* a character that is no candidate.
PhasesRan ==
  /\ Called("WordFromText")
  /\ err = "none"
  /\ \E k \in DOMAIN phase1 : Len(phase1[k]) > 1
  /\ \E k \in DOMAIN phase1 :
       Len(phase1[k]) = 1 /\ phase1[k] \notin arg.token_list

\* C6: the vocabulary of the tokenizer WordTokenizer.FromText returns has as
\* atoms exactly the meta tokens and the atoms of phase 1, the meta tokens
\* at the indices 0.. in the order of their declaration and the other atoms
\* after them in lexicographic order, also for a corpus that holds a
\* meta-token string.
FromTextVocabulary ==
  (Called("WordFromText") /\ err = "none") =>
    LET metas == MetaValues(MetaTokensFor(arg.mask_tokens))
        found == Sorted(Range(phase1) \ Range(metas))
    IN /\ DOMAIN vocab = Range(metas) \cup Range(phase1)
       /\ \A k \in DOMAIN metas : vocab[metas[k]] = k - 1
       /\ \A k \in DOMAIN found : vocab[found[k]] = Len(metas) + k - 1

\* The number of times the character c occurs in the text.
Occurrences(text, c) == Len(SelectSeq(text, LAMBDA x : x = c))

\* C7: the vocabulary AsciiCharacterTokenizer.FromText builds has the meta
\* tokens, when masking is on, at the lowest indices in the order of their
\* declaration, and every character of the corpus after them, a more frequent
\* one at a lower index than a less frequent one.
FrequencyOrder ==
  (Called("CharFromText") /\ err = "none") =>
    LET metas == MetaValues(MetaTokensFor(arg.mask_tokens))
        chars == {<<corpus[k]>> : k \in DOMAIN corpus}
    IN /\ DOMAIN vocab = Range(metas) \cup chars
       /\ \A k \in DOMAIN metas : vocab[metas[k]] = k - 1
       /\ \A c \in chars : vocab[c] >= Len(metas)
       /\ \A a, b \in chars :
            Occurrences(corpus, a[1]) > Occurrences(corpus, b[1])
              => vocab[a] < vocab[b]

\* FromText built, with masking on, the vocabulary of a corpus with a more
\* frequent character that first occurs after a less frequent one.
FrequencyOrdered ==
  /\ Called("CharFromText")
  /\ err = "none"
  /\ arg.mask_tokens
  /\ \E i, j \in DOMAIN corpus :
       /\ i < j
       /\ \A m \in 1..(j - 1) : corpus[m] # corpus[j]
       /\ Occurrences(corpus, corpus[j]) > Occurrences(corpus, corpus[i])

\* The places of the text at which a string of metas starts.
MetaOccurrences(text, metas) ==
  {p \in 0..(Len(text) - 1) :
     \E m \in metas : Slice(text, p, p + Len(m)) = m}

\* The last call was TokenizeString on a character tokenizer with meta
\* tokens.
MetaEncode ==
  Called("TokenizeString") /\ kind = "char" /\ metaTokens # <<>>

\* C8: a character tokenizer with meta tokens encodes a text into one index
\* for each occurrence of a meta-token string, that of the meta atom, and one
\* for every other character, in the order of the text, and ArrayToCode of
\* the result is the text without the meta-token strings; "[START]ab[END]"
\* gives 4 indices and "ab".
MetaTokenStripping ==
  LET metas == Range(MetaValues(metaTokens))
      seg == MetaSegments(arg.text, metas)
      code == ArrayToCodeOf(Self, ret, 1, TRUE, FALSE)
  IN /\ (MetaEncode /\ err = "none") =>
          /\ Len(ret) = Len(seg)
          /\ \A k \in DOMAIN ret : ret[k] = vocab[seg[k]]
          /\ Cardinality({k \in DOMAIN ret : ret[k] \in metaTokenValues})
               = Cardinality(MetaOccurrences(arg.text, metas))
          /\ Len(ret) = Cardinality(MetaOccurrences(arg.text, metas))
               + Cardinality({k \in DOMAIN seg : Len(seg[k]) = 1})
          /\ code.err = "none"
          /\ code.val = Join(SelectSeq(seg, LAMBDA x : x \notin metas))
     /\ (MetaEncode /\ arg.text = MarkedText
           /\ {<<"a">>, <<"b">>} \subseteq DOMAIN vocab) =>
          /\ err = "none"
          /\ Len(ret) = 4
          /\ code.val = <<"a", "b">>

\* "[START]ab[END]" has been encoded, into 4 indices.
MarkedTextEncoded ==
  /\ MetaEncode
  /\ arg.text = MarkedText
  /\ err = "none"
  /\ Len(ret) = 4

\* An encoded of np.ndim(encoded) = ndim without the indices of the meta
\* tokens.
RECURSIVE WithoutMeta(_, _)
WithoutMeta(encoded, ndim) ==
  IF ndim <= 1
  THEN SelectSeq(encoded, LAMBDA x : x \notin metaTokenValues)
  ELSE [k \in DOMAIN encoded |-> WithoutMeta(encoded[k], ndim - 1)]

\* The last call was ArrayToCode(arg.encoded) and tokensToString accepts
\* arg.encoded.
CodeOfAccepted ==
  /\ Called("ArrayToCode")
  /\ TokensToStringOf(Self, arg.encoded, arg.ndim, None,
                      arg.with_formatting).err = "none"

\* ArrayToCode returned what tokensToString returns for arg.encoded without
\* the indices of the meta tokens.
CodeIsFilteredDecode ==
  LET d == TokensToStringOf(Self, WithoutMeta(arg.encoded, arg.ndim),
                            arg.ndim, None, arg.with_formatting)
  IN err = "none" /\ d.err = "none" /\ ret = d.val

\* C9 as stated: for every input tokensToString accepts, a sequence or a
\* nested one, ArrayToCode returns what tokensToString returns for the input
\* with every index of metaTokenValues removed.
ArrayToCodeFiltersAll == CodeOfAccepted => CodeIsFilteredDecode

\* C9 as amended: for every one-dimensional sequence tokensToString accepts,
\* ArrayToCode returns what tokensToString returns for the sequence with
\* every index of metaTokenValues removed.
ArrayToCodeFiltersSequence ==
  (CodeOfAccepted /\ arg.ndim = 1) => CodeIsFilteredDecode

\* ArrayToCode returned for a sequence with an index of a meta token and one
\* of another atom.
SequenceFiltered ==
  /\ CodeOfAccepted
  /\ arg.ndim = 1
  /\ err = "none"
  /\ \E k \in DOMAIN arg.encoded : arg.encoded[k] \in metaTokenValues
  /\ \E k \in DOMAIN arg.encoded : arg.encoded[k] \notin metaTokenValues

\* The decoder entries of the indices of encoded other than ignore_token, one
\* after the other.
RECURSIVE ConcatDecoded(_, _)
ConcatDecoded(encoded, ignore_token) ==
  IF encoded = <<>> THEN <<>>
  ELSE (IF Head(encoded) = ignore_token THEN <<>>
        ELSE decoder[Head(encoded)])
         \o ConcatDecoded(Tail(encoded), ignore_token)

RECURSIVE HoldsMissing(_, _, _, _)
HoldsMissing(dec, encoded, ndim, ignore_token) ==
  IF ndim <= 1
  THEN \E k \in DOMAIN encoded :
         encoded[k] # ignore_token /\ encoded[k] \notin DOMAIN dec
  ELSE \E k \in DOMAIN encoded :
         HoldsMissing(dec, encoded[k], ndim - 1, ignore_token)

\* C11: tokensToString of a sequence that holds an index, other than
\* ignore_token, without a decoder entry raises KeyError, returns no text and
\* leaves the tokenizer as it was.
DecodeKeyError ==
  [][(pc = "idle" /\ op' = "tokensToString"
        /\ HoldsMissing(decoder, arg'.encoded, arg'.ndim, arg'.ignore_token))
       => (err' = "KeyError" /\ ret' = <<>> /\ UNCHANGED objvars)]_vars

\* tokensToString raised KeyError for a nested sequence with an index that
\* has no decoder entry.
DecodeKeyErrorRaised ==
  /\ Called("tokensToString")
  /\ err = "KeyError"
  /\ HoldsMissing(decoder, arg.encoded, arg.ndim, arg.ignore_token)
  /\ arg.ndim = 2

\* The cursor <<line, column>> after the first k of the atoms: it starts at
\* line 1, column 1; a meta-token atom leaves it unchanged, a one-newline
\* atom advances the line by one and resets the column, a two-newline atom
\* advances the line by two (and resets the column iff resetTwo), any other
\* atom advances the column by its length.
RECURSIVE CursorAfter(_, _, _, _)
CursorAfter(metas, atoms, k, resetTwo) ==
  IF k = 0 THEN <<1, 1>>
  ELSE LET before == CursorAfter(metas, atoms, k - 1, resetTwo)
           atom == atoms[k]
       IN CASE atom \in metas -> before
            [] atom = <<"\n", "\n">> ->
                 <<before[1] + 2, IF resetTwo THEN 1 ELSE before[2]>>
            [] atom = <<"\n">> -> <<before[1] + 1, 1>>
            [] OTHER -> <<before[1], before[2] + Len(atom)>>

\* The number of queries matched by the first k atoms: after each atom the
\* current query is matched when the cursor is on its line and past its
\* column, and the next query becomes current.
RECURSIVE MatchedAfter(_, _, _, _, _)
MatchedAfter(metas, atoms, locs, k, resetTwo) ==
  IF k = 0 THEN 0
  ELSE LET n == MatchedAfter(metas, atoms, locs, k - 1, resetTwo)
           cur == CursorAfter(metas, atoms, k, resetTwo)
       IN IF n < Len(locs) /\ cur[1] = locs[n + 1][1]
                           /\ cur[2] > locs[n + 1][2]
          THEN n + 1 ELSE n

\* The positions (from 0) of the atoms that matched a query, in order.
MatchPositions(metas, atoms, locs, resetTwo) ==
  LET Hit(p) == MatchedAfter(metas, atoms, locs, p + 1, resetTwo)
                  > MatchedAfter(metas, atoms, locs, p, resetTwo)
  IN SelectSeq([k \in 1 .. Len(atoms) |-> k - 1], Hit)

\* The atoms the indices of the last SrcLocationToIndex call decode to.
LocatedAtoms == [k \in DOMAIN arg.encoded |-> decoder[arg.encoded[k]]]

\* SrcLocationToIndex returned the positions the walk gives, when every
\* index has a decoder entry; otherwise it raised KeyError.
LocationWalkIs(resetTwo) ==
  (Called("SrcLocationToIndex") /\ kind # "ast")
    => IF \A k \in DOMAIN arg.encoded : arg.encoded[k] \in DOMAIN decoder
       THEN /\ err = "none"
            /\ ret = MatchPositions(Range(MetaValues(metaTokens)),
                                    LocatedAtoms, arg.locations, resetTwo)
            /\ Len(ret) <= Len(arg.locations)
            /\ (Len(ret) < Len(arg.locations)
                  <=> MatchedAfter(Range(MetaValues(metaTokens)),
                                   LocatedAtoms, arg.locations,
                                   Len(arg.encoded), resetTwo)
                        < Len(arg.locations))
       ELSE err = "KeyError"

\* C12 as stated: SrcLocationToIndex walks the decoded atoms with a cursor
\* starting at line 1, column 1; a meta-token atom leaves the cursor
\* unchanged, a two-newline atom advances the line by two (the column stays),
\* a one-newline atom advances the line by one and resets the column, any
\* other atom advances the column by its length; an atom's position is
\* recorded when the cursor is on the current query's line and past its
\* column.
LocationWalkKeepsColumn == LocationWalkIs(FALSE)

\* C12: SrcLocationToIndex of a character or word tokenizer walks the
\* decoded atoms as stated, except that a two-newline atom advances the line
\* by two and also resets the column to 1; the result has fewer entries than
\* queries exactly when the atoms end before all queries are matched.
LocationWalk == LocationWalkIs(TRUE)

\* SrcLocationToIndex walked over a two-newline atom, matched a query and
\* ran out of atoms before the last query was matched.
LocationWalked ==
  /\ Called("SrcLocationToIndex") /\ err = "none"
  /\ 8 \in Range(arg.encoded)
  /\ ret # <<>>
  /\ Len(ret) < Len(arg.locations)

\* Objects a and b give the same result for every encode, atomize and
\* decode call.
SameBehaviour(a, b) ==
  /\ \A text \in InputTexts, split \in InputSplits :
       /\ TokenizeStringOf(a, text, split) = TokenizeStringOf(b, text, split)
       /\ AtomizeStringOf(a, text, split) = AtomizeStringOf(b, text, split)
  /\ \A e \in InputEncoded, ignore_token \in IgnoreTokens, wf \in Formattings :
       /\ TokensToStringOf(a, e.data, e.ndim, ignore_token, wf)
            = TokensToStringOf(b, e.data, e.ndim, ignore_token, wf)
       /\ ArrayToCodeOf(a, e.data, e.ndim, TRUE, wf)
            = ArrayToCodeOf(b, e.data, e.ndim, TRUE, wf)

BuiltFromText ==
  pc = "returned" /\ op \in {"ASTFromText", "FromText"} /\ kind = "ast"

\* Every atom key returned for more than one chunk carries the same
\* delimiter in each.
SameDelimiters(chunks) ==
  \A i, j \in DOMAIN chunks :
    \A k \in DOMAIN chunks[i].tl \cap DOMAIN chunks[j].tl :
      chunks[i].tl[k] = chunks[j].tl[k]

\* The atom-to-delimiter mapping of the chunks, whatever their order: a meta
\* token has the delimiter '', any other key the delimiter a chunk gives it.
MergedOf(chunks, mask_tokens) ==
  LET metas == Range(MetaValues(MetaTokensFor(mask_tokens)))
      keys == UNION {DOMAIN chunks[i].tl : i \in DOMAIN chunks}
  IN [k \in keys \cup metas |->
        IF k \in metas THEN <<>>
        ELSE chunks[CHOOSE i \in DOMAIN chunks : k \in DOMAIN chunks[i].tl].tl[k]]

\* C14: when every atom key returned for more than one chunk carries the same
\* delimiter in each, the mapping ASTokenizer.FromText has merged, the atom
\* set of the vocabulary and the rendering of each atom are those of the
\* chunks, in whatever order the workers completed them.
MergeDeterministic ==
  (BuiltFromText /\ SameDelimiters(corpus))
    => LET merged == MergedOf(corpus, arg.mask_tokens) IN
       /\ source_tokens = merged
       /\ DOMAIN vocab = DOMAIN merged
       /\ \A k \in DOMAIN vocab :
            /\ vocab[k] \in DOMAIN decoder_with_delim
            /\ decoder_with_delim[vocab[k]] = WithDelim(k, merged[k])

\* A tokenizer was built from two chunks with a common atom key, the second
\* of which was completed first.
MergedOutOfOrder ==
  /\ BuiltFromText /\ SameDelimiters(corpus)
  /\ queue = <<2, 1>>
  /\ DOMAIN corpus[1].tl \cap DOMAIN corpus[2].tl # {}

\* ASTokenizer.FromText has failed: the error has reached the caller.
DiscoveryFailed ==
  pc = "failed" /\ op \in {"ASTFromText", "FromText"} /\ pool # "none"

\* C15: a step of the discovery pass of ASTokenizer.FromText in which the
\* exception of a chunk extraction reaches the coordinator, or in which the
\* caller is interrupted, terminates the pool and ends the call with that
\* error: no object is built, nothing is returned, and no step follows (no
\* chunk is started or merged again); a call that returns a tokenizer had no
\* chunk extraction that raised.
DiscoveryFailsAtomically ==
  [][/\ (pc = "discovering" /\ err' # "none")
         => /\ pc' = "failed"
            /\ pool' = "terminated"
            /\ err' \in {"Exception", "KeyboardInterrupt"}
            /\ kind' = "none" /\ vocab' = EmptyDict /\ ret' = <<>>
            /\ \A i \in DOMAIN status' : status'[i] \in {"merged", "cancelled"}
     /\ ~DiscoveryFailed
     /\ BuiltFromText' => \A i \in DOMAIN corpus' : ~corpus'[i].raises]_vars

\* The discovery pass failed on the exception of a chunk after the result of
\* another chunk had been merged.
FailedAfterMerge ==
  /\ DiscoveryFailed /\ err = "Exception"
  /\ pool = "terminated"
  /\ \E i \in DOMAIN status : status[i] = "merged"
  /\ source_tokens # EmptyDict

\* Some worker has a chunk to extract or is extracting it.
WorkersBusy == \E j \in DOMAIN status : status[j] \in {"pending", "running"}

\* C16 as stated: in the discovery pass no chunk result is merged while some
\* worker is still running; the merge starts after all workers have
\* completed their chunks.
MergeAfterAllWorkers ==
  (pc = "discovering" /\ \E i \in DOMAIN status : status[i] = "merged")
    => ~WorkersBusy

\* C16: in the discovery pass the result of a chunk is merged when the
\* coordinator takes it, which may be while workers still run other chunks;
\* it is the result of a chunk whose worker is done, the step that merges it
\* is the coordinator's and merges that one result only, and no step of a
\* worker changes the merged mapping.
MergeByCoordinator ==
  [][/\ (pc = "discovering" /\ pc' = "discovering"
           /\ \E i \in DOMAIN status : status'[i] # status[i]
                                         /\ status'[i] = "merged")
         => \E i \in DOMAIN status :
              /\ status[i] = "finished" /\ status'[i] = "merged"
              /\ i = queue[Taken + 1]
              /\ \A j \in DOMAIN status \ {i} : status'[j] = status[j]
              /\ queue' = queue
              /\ source_tokens' = UpdateDict(source_tokens, corpus[i].tl)
     /\ (pc = "discovering" /\ pc' = "discovering"
           /\ \A i \in DOMAIN status : status'[i] = "merged"
                                         => status[i] = "merged")
         => source_tokens' = source_tokens]_vars

\* The result of one chunk is merged while a worker is running another.
MergedWhileRunning ==
  /\ pc = "discovering"
  /\ \E i, j \in DOMAIN status :
       status[i] = "merged" /\ status[j] = "running"
  /\ source_tokens # EmptyDict

\* The factory was called and no tokenizer came of it: it raised at once.
FactoryFailed == pc = "failed" /\ err # "none" /\ kind = "none"

\* C17: a call of the factory FromText with the wordpiece flag set has
\* failed when it ends, whatever the token type: no tokenizer is returned.
WordpieceRejected ==
  (op = "FromText" /\ pc # "discovering"
     /\ arg.config.wordpiece_tokenization = "True")
    => FactoryFailed

\* The configuration lacks a candidate vocabulary: no token list, or an
\* empty one.
NoCandidates(config) ==
  ~config.token_list.given \/ config.token_list.tokens = {}

\* C18 as stated: the factory fails, returning no tokenizer, when the token
\* type is none of character, word and ast, and when the type word or the
\* type ast is selected without a candidate vocabulary.
ConfigurationErrorsWordAndAST ==
  (op = "FromText" /\ pc # "discovering"
     /\ \/ arg.config.token_type \notin {"character", "word", "ast"}
        \/ /\ arg.config.token_type \in {"word", "ast"}
           /\ NoCandidates(arg.config))
    => FactoryFailed

\* C18: the factory fails, returning no tokenizer, when the token type is
\* none of character, word and ast, and when the type word is selected
\* without a candidate vocabulary (no token list, or an empty one).
ConfigurationErrors ==
  (op = "FromText"
     /\ \/ arg.config.token_type \notin {"character", "word", "ast"}
        \/ /\ arg.config.token_type = "word"
           /\ NoCandidates(arg.config))
    => FactoryFailed

\* The factory failed for a word tokenizer with an empty token list; it
\* fails likewise for a token type it does not know.
ConfigurationRejected ==
  /\ op = "FromText" /\ FactoryFailed
  /\ arg.config.token_type = "word"
  /\ arg.config.token_list.given /\ arg.config.token_list.tokens = {}
  /\ err = "ValueError"

\* The chunk whose atoms are split, given that the renderings of its atoms
\* concatenate to it.
ChunkOf(self, split) ==
  Join([k \in DOMAIN split |-> self.decoder_with_delim[self.vocab[split[k]]]])

\* tokensToString(TokenizeString(chunk), with_formatting=False) of self is
\* the chunk, when opencl.AtomizeSource returns split for it.
Faithful(self, split) ==
  LET chunk == ChunkOf(self, split)
      enc == ASTTokenizeString(self, chunk, split)
  IN /\ enc.err = "none"
     /\ TokensToStringOf(self, enc.val, 1, None, FALSE)
          = [err |-> "none", val |-> chunk]

\* C19: for an ASTokenizer built by FromText and every chunk of its corpus,
\* tokensToString(TokenizeString(chunk), with_formatting=False) is the chunk,
\* when the splitter returns for the chunk only atoms found during the
\* discovery of that chunk and their renderings concatenate to the chunk.
LiteralFidelity ==
  BuiltFromText
    => \A i \in DOMAIN corpus :
         \A split \in SeqsUpTo(DOMAIN corpus[i].tl, MaxSplit) :
           Faithful(Self, split)

\* The tokenizer is frozen: a character tokenizer, an AST tokenizer or a word
\* tokenizer with determine_chars = False.
Frozen == kind \in {"char", "ast"} \/ (kind = "word" /\ ~determine_chars)

\* The calls C20 is about.
UseCalls ==
  {"TokenizeString", "AtomizeString", "tokensToString", "ArrayToCode",
   "StringArrToCode", "SrcLocationToIndex"}

\* C20: a TokenizeString (returning or raising), AtomizeString,
\* tokensToString, ArrayToCode, StringArrToCode or SrcLocationToIndex call on
\* a frozen tokenizer leaves vocab, decoder, vocab_size, metaTokens,
\* metaTokenValues, lookup and decoder_with_delim unchanged, and no call on a
\* tokenizer, frozen or growable, changes its class or determine_chars.
FrozenFrame ==
  [][pc = "idle"
       => /\ (Frozen /\ op' \in UseCalls) => UNCHANGED objvars
          /\ kind' = kind /\ determine_chars' = determine_chars]_vars

\* TokenizeString raised on a frozen word tokenizer that has a lookup table
\* and meta tokens.
FrozenRaised ==
  /\ Called("TokenizeString") /\ err = "ValueError"
  /\ kind = "word" /\ ~determine_chars
  /\ lookup # NoLookup /\ metaTokenValues # {}

\* C21: WordTokenizer.TokenizeString cuts the text by maximal munch: what it
\* returns are the indices of the segments the text has when, at every scan
\* position, the longest atom of two or more characters that is a prefix of
\* the rest is taken, and one character only where there is none; it raises
\* only when one of these segments is not in the vocabulary.
MaximalMunch ==
  (Called("TokenizeString") /\ kind = "word")
    => LET segs == GreedySegments(arg.text, DOMAIN vocab) IN
       IF err = "none"
       THEN /\ \A k \in DOMAIN segs : segs[k] \in DOMAIN vocab
            /\ ret = [k \in DOMAIN segs |-> vocab[segs[k]]]
       ELSE \E k \in DOMAIN segs : segs[k] \notin DOMAIN vocab

\* "aabc" was cut into a, a, bc by a tokenizer whose window end had run
\* ahead of the scan position over the two characters without lookup entry.
MunchedWithCarriedWindow ==
  /\ Called("TokenizeString") /\ kind = "word" /\ err = "none"
  /\ arg.text = <<"a", "a", "b", "c">>
  /\ <<"a">> \notin DOMAIN lookup
  /\ ret = <<vocab[<<"a">>], vocab[<<"a">>], vocab[<<"b", "c">>]>>

\* The segments that are not atoms of V, each once, in the order in which
\* the text first has them.
NewAtoms(segs, V) ==
  SelectSeq([k \in DOMAIN segs |->
               IF segs[k] \notin V
                  /\ \A m \in 1 .. (k - 1) : segs[m] # segs[k]
               THEN segs[k] ELSE <<>>],
            LAMBDA s : s # <<>>)

\* A TokenizeString call of a word tokenizer begins in this step.
WordEncodeStep == pc = "idle" /\ kind = "word" /\ op' = "TokenizeString"

\* The call kept every atom with its index and, growable, added the missing
\* characters of its text with the indices max + 1, max + 2, ... in the order
\* in which it met them.
GrewBy(new) ==
  /\ \A a \in DOMAIN vocab : a \in DOMAIN vocab' /\ vocab'[a] = vocab[a]
  /\ err' = "none"
  /\ DOMAIN vocab' = DOMAIN vocab \cup Range(new)
  /\ \A r \in DOMAIN new :
       \E top \in Range(vocab) :
         /\ \A a \in DOMAIN vocab : vocab[a] <= top
         /\ vocab'[new[r]] = top + r

\* C22 as stated: a growable WordTokenizer.TokenizeString adds every single
\* character it meets that is absent from the vocabulary, with the index
\* (maximum index in the vocabulary) + 1, and changes or removes the index of
\* no atom; a frozen one raises instead.
GrowthAllocatesIndices ==
  [][WordEncodeStep =>
       LET new == NewAtoms(GreedySegments(arg'.text, DOMAIN vocab),
                           DOMAIN vocab)
       IN IF determine_chars
          THEN new = <<>> \/ (DOMAIN vocab # {} /\ GrewBy(new))
          ELSE /\ vocab' = vocab
               /\ new # <<>> => err' = "ValueError"]_vars

\* C22: the same for a vocabulary that is not empty; a growable tokenizer
\* with an empty vocabulary has no maximum index: the call raises ValueError
\* at the first character and adds nothing.
GrowthAllocatesIndicesNonEmpty ==
  [][WordEncodeStep =>
       LET new == NewAtoms(GreedySegments(arg'.text, DOMAIN vocab),
                           DOMAIN vocab)
       IN IF determine_chars /\ DOMAIN vocab # {}
          THEN GrewBy(new)
          ELSE /\ vocab' = vocab
               /\ new # <<>> => err' = "ValueError"]_vars

\* A growable tokenizer has added two characters in one call, above a largest
\* index that is not the number of atoms less one.
GrewByTwo ==
  /\ Called("TokenizeString") /\ kind = "word" /\ determine_chars
  /\ err = "none"
  /\ arg.text = <<"b", "a">>
  /\ Len(ret) = 2 /\ ret[2] = ret[1] + 1
  /\ ret[1] > Cardinality(DOMAIN vocab) - 2
  /\ vocab[<<"b">>] = ret[1] /\ vocab[<<"a">>] = ret[2]

\* C23: in every state of a WordTokenizer, also after growable TokenizeString
\* calls have added atoms, the keys of lookup are exactly the first characters
\* of the atoms of vocab of two or more characters, and each key maps to
\* exactly those of these atoms that start with it.
LookupMatchesVocabulary ==
  kind = "word" =>
    /\ \A c \in DOMAIN lookup :
         \E a \in DOMAIN vocab : Len(a) > 1 /\ a[1] = c
    /\ \A a \in DOMAIN vocab :
         Len(a) > 1 => (a[1] \in DOMAIN lookup /\ a \in lookup[a[1]])
    /\ \A c \in DOMAIN lookup : \A a \in lookup[c] :
         a \in DOMAIN vocab /\ Len(a) > 1 /\ a[1] = c

\* A growable tokenizer with a lookup table has added the character b, which
\* is the first character of no atom of the table.
LookupAfterGrowth ==
  /\ Called("TokenizeString") /\ kind = "word" /\ determine_chars
  /\ err = "none"
  /\ lookup # NoLookup
  /\ <<"b">> \in DOMAIN vocab /\ vocab[<<"b">>] \in Range(ret)
  /\ "b" \notin DOMAIN lookup

\* The last call was tokensToString without formatting, on an ASTokenizer and
\* a one-dimensional sequence all of whose indices, but for ignore_token, have
\* a decoder_with_delim entry.
PlainDecodeOfRendered ==
  /\ Called("tokensToString") /\ kind = "ast"
  /\ arg.ndim = 1 /\ ~arg.with_formatting
  /\ \A k \in DOMAIN arg.encoded :
       arg.encoded[k] = arg.ignore_token
         \/ arg.encoded[k] \in DOMAIN decoder_with_delim

\* The index is that of the char-based atom e or E; that of the atom + or -.
IsExponent(x) ==
  \E a \in {ExpLower, ExpUpper} : a \in DOMAIN vocab /\ vocab[a] = x
IsSign(x) == \E a \in {Plus, Minus} : a \in DOMAIN vocab /\ vocab[a] = x

\* The renderings of the indices of encoded other than ignore_token, in
\* order, each exponent atom that has a sign atom as the next element of
\* encoded followed by one space.
ExponentSpaced(encoded, ignore_token) ==
  Join([k \in DOMAIN encoded |->
          IF encoded[k] = ignore_token THEN <<>>
          ELSE decoder_with_delim[encoded[k]]
                 \o (IF IsExponent(encoded[k]) /\ k < Len(encoded)
                        /\ IsSign(encoded[k + 1])
                     THEN <<" ">> ELSE <<>>)])

\* C24: the decode of an ASTokenizer without formatting returns, for the
\* indices other than ignore_token in order, their decoder_with_delim
\* renderings, with one space more after an index exactly when it is the
\* char-based atom e or E and the next element of the sequence is the atom +
\* or -.
ExponentRule ==
  PlainDecodeOfRendered
    => err = "none" /\ ret = ExponentSpaced(arg.encoded, arg.ignore_token)

\* The literal an atom key stands for: the key without the suffix of the
\* char-based atoms, an escaped backslash in it made a single backslash.
Unescaped(k) ==
  Replace(Replace(k, CharBased, <<>>), <<"\\", "\\">>, <<"\\">>)

\* The constructor of an ASTokenizer has returned.
BuiltAST == Called("__init__") /\ kind = "ast"

\* C25: decoder_with_delim holds, at the index of every atom key given a
\* delimiter, the literal of the key (suffix stripped, backslashes unescaped)
\* followed by the delimiter; in a tokenizer built by FromText its indices are
\* those of the vocabulary.
CleanedRendering ==
  /\ BuiltAST
       => \A k \in DOMAIN arg.token_del :
            /\ vocab[k] \in DOMAIN decoder_with_delim
            /\ decoder_with_delim[vocab[k]] = Unescaped(k) \o arg.token_del[k]
  /\ BuiltFromText
       => /\ DOMAIN decoder_with_delim = Range(vocab)
          /\ \A k \in DOMAIN vocab :
               decoder_with_delim[vocab[k]] = Unescaped(k) \o source_tokens[k]

\* C26: the criterion reports a sample complete only when its last token is
\* the depth-decrease token, the depth-increase token has occurred, and the
\* two have occurred equally often; GetTokenDepth is negative for a sample
\* without the depth-increase token.
CompleteOnlyAfterLeft ==
  /\ done
       => /\ sample_in_progress[Len(sample_in_progress)] = right_token
          /\ Count(sample_in_progress, left_token) # 0
          /\ Count(sample_in_progress, left_token)
               = Count(sample_in_progress, right_token)
  /\ (token_depth # <<>> /\ Count(sample_in_progress, left_token) = 0)
       => token_depth[1] < 0

\* A FromText constructor, or the factory, has returned a tokenizer.
ReturnedByFromText ==
  /\ pc = "returned" /\ err = "none"
  /\ op \in {"CharFromText", "WordFromText", "ASTFromText", "FromText"}

\* C27: the indices of the vocabulary of a tokenizer a FromText constructor
\* returns are exactly 0 .. vocab_size - 1, also for a corpus that holds a
\* meta-token string.
DenseIndices ==
  ReturnedByFromText => Range(vocab) = 0 .. vocab_size - 1

\* C28: tokensToString of an ASTokenizer, without formatting and on a
\* one-dimensional sequence, raises KeyError only when the sequence holds an
\* index, other than ignore_token, without a decoder_with_delim entry,
\* whatever atoms the vocabulary holds.
PlainDecodeKeyErrorOnlyIfMissing ==
  (/\ Called("tokensToString") /\ kind = "ast"
   /\ arg.ndim = 1 /\ ~arg.with_formatting
   /\ err # "none")
    => HoldsMissing(decoder_with_delim, arg.encoded, 1, arg.ignore_token)

\* The states in which the loop of WordTokenizer.TokenizeString tests its
\* condition, from state st on.
RECURSIVE WordVisited(_, _, _)
WordVisited(self, text, st) ==
  IF st.err # "none" \/ st.i >= Len(text) THEN {st}
  ELSE {st} \cup Bind(WordStep(self, text, st),
                      LAMBDA n : WordVisited(self, text, n))

\* The iteration from loop state st to n makes progress: it raises, or it
\* advances i, or it leaves i and adds one to a window end j that was at most
\* the length of the text.
Progress(text, st, n) ==
  \/ n.err # "none"
  \/ n.i > st.i
  \/ n.i = st.i /\ st.j <= Len(text) /\ n.j = st.j + 1

\* C29: every iteration of the loop of WordTokenizer.TokenizeString advances
\* i or increases j while j <= len(text), in growable and in frozen mode, and
\* the call returns its indices or raises ValueError.
LoopProgress ==
  [][(pc = "idle" /\ kind = "word" /\ op' = "TokenizeString")
       => LET text == arg'.text IN
          /\ \A st \in WordVisited(Self, text, WordStart(vocab)) :
               (st.err = "none" /\ st.i < Len(text))
                 => Progress(text, st, WordStep(Self, text, st))
          /\ pc' = "returned"
          /\ err' \in {"none", "ValueError"}
          /\ err' = "none" => ret' \in Seq(Range(vocab'))]_vars

\* A call that grew the window over the first character, shrank it again and
\* went on to the end of the text.
LoopGrewAndShrank ==
  /\ Called("TokenizeString") /\ kind = "word" /\ err = "none"
  /\ arg.text = <<"a", "b", "a", "b">>
  /\ <<"a", "b", "c">> \in DOMAIN vocab
  /\ Len(ret) = 2

\* The atom at position p (from 0) answers the query loc: after it the cursor
\* is on the line of loc and past its column.
Answers(p, loc) ==
  LET cur == CursorAfter(Range(MetaValues(metaTokens)), LocatedAtoms, p + 1,
                         TRUE)
  IN cur[1] = loc[1] /\ cur[2] > loc[2]

\* C30: the list SrcLocationToIndex returns is strictly increasing, holds
\* positions of the encoded sequence, is no longer than the queries and no
\* longer than the sequence, and its k-th entry is the first position after
\* the entry before it that answers the k-th query; when a query is left
\* without an entry, no position after the last entry answers it, and no
\* later query has an entry.
LocatedInOrder ==
  (Called("SrcLocationToIndex") /\ err = "none")
    => LET n == Len(arg.encoded)
           From(k) == IF k = 1 THEN 0 ELSE ret[k - 1] + 1
       IN /\ \A k \in 1 .. Len(ret) - 1 : ret[k] < ret[k + 1]
          /\ \A k \in DOMAIN ret : ret[k] \in 0 .. n - 1
          /\ Len(ret) <= Min(Len(arg.locations), n)
          /\ \A k \in DOMAIN ret :
               /\ Answers(ret[k], arg.locations[k])
               /\ \A p \in From(k) .. ret[k] - 1 :
                    ~Answers(p, arg.locations[k])
          /\ Len(ret) < Len(arg.locations)
               => \A p \in From(Len(ret) + 1) .. n - 1 :
                    ~Answers(p, arg.locations[Len(ret) + 1])

\* The first query was never answered, and the second, which an atom does
\* answer, was left without an entry.
LaterQueryBlocked ==
  /\ Called("SrcLocationToIndex") /\ err = "none"
  /\ Len(arg.locations) = 2
  /\ ret = <<>>
  /\ \E p \in 0 .. Len(arg.encoded) - 1 : Answers(p, arg.locations[2])

=============================================================================
